---- MODULE Spec2Model ----
(***************************************************************************)
(* A model of tigrisdata/storage-go: the functional-option resolvers and   *)
(* the simplestorage facade (New, Put, Head, List, ListBuckets,            *)
(* PresignURL) over the backing S3 SDK.                                   *)
(*                                                                         *)
(* Go values are represented as follows.                                   *)
(*   string        a TLA+ string, "" being the zero value                  *)
(*   *T            <<>> for nil, <<v>> for a pointer to v                  *)
(*   []T           a sequence                                              *)
(*   error         a record [msg, is]: msg names the message, is holds the *)
(*                 sentinels errors.Is reports; NoErr is the nil error     *)
(*   option func   a record [fn, a, b, on, n, ds]: the constructor and its  *)
(*                 string, boolean, integer and request-decorator          *)
(*                 arguments                                               *)
(*   S3 option     a request decorator (a func on s3.Options), the header  *)
(*                 [key, value] that tigrisheaders.WithHeader adds         *)
(***************************************************************************)
EXTENDS Integers, Sequences, FiniteSets, TLC

VARIABLES
    env,        \* the process environment read by Options.defaults
    client,     \* the *simplestorage.Client in use: nil or a pointer to it
    store,      \* the backing service's objects: <<bucket, key>> -> object
    svc,        \* the backing service's buckets: name -> nil, or the keys held
    obj,        \* the caller's Object handed to Put by pointer
    inflight,   \* the facade calls in progress: call -> its frame
    calls,      \* what the last operation asked of the backing SDK, in order
    last        \* the last operation: its name, inputs and results

vars == <<env, client, store, svc, obj, inflight, calls, last>>

(***************************************************************************)
(* Bounds of the model.                                                    *)
(***************************************************************************)
MaxOpts == 3        \* longest option list given to a resolver
MaxNewOpts == 2     \* longest option list given to New
MaxCallOpts == 2    \* longest option list given to one facade call
MaxCalls == 2       \* most facade calls in progress at once
MaxObjects == 3     \* most objects a bucket of the backing service holds
MaxHelpers == 3     \* most tigrisheaders helpers applied to one s3.Options value
MaxPage == 2        \* most entries in one page the backing service returns

(***************************************************************************)
(* Go helpers.                                                             *)
(***************************************************************************)
NilPtr == <<>>
Ptr(v) == <<v>>

\* lower returns the value pointed to by p, or defaultVal if p is nil.
lower(p, defaultVal) == IF p # NilPtr THEN p[1] ELSE defaultVal

\* raise returns a pointer to v, or nil if v is the zero value of its type.
raise_always(v, zero) == Ptr(v)
raise(v, zero) == IF v = zero THEN NilPtr ELSE Ptr(v)

NoErr == [msg |-> "", is |-> {}]
errors_New(m) == [msg |-> m, is |-> {m}]
errors_Join(errs) == [msg |-> "join", is |-> UNION {errs[i].is : i \in DOMAIN errs}]
\* fmt.Errorf with the %w verb keeps the cause matchable, with %v it does not.
Errorf_w(prefix, e) == [msg |-> prefix, is |-> e.is]
Errorf_v(prefix, e) == [msg |-> prefix, is |-> {}]
Errorf(m) == [msg |-> m, is |-> {}]
errors_Is(e, target) == target.msg \in e.is

SeqsUpTo(S, n) == UNION {[1..k -> S] : k \in 0..n}

Opt(f, x, y) == [fn |-> f, a |-> x, b |-> y, on |-> FALSE, n |-> 0, ds |-> <<>>]
OptB(f, v) == [fn |-> f, a |-> "", b |-> "", on |-> v, n |-> 0, ds |-> <<>>]
OptN(f, k) == [fn |-> f, a |-> "", b |-> "", on |-> FALSE, n |-> k, ds |-> <<>>]
OptD(f, d) == [fn |-> f, a |-> "", b |-> "", on |-> FALSE, n |-> 0, ds |-> d]

(***************************************************************************)
(* storage.Options, storage.Option                                         *)
(***************************************************************************)
GlobalEndpoint == "https://t3.storage.dev"
FlyEndpoint == "https://fly.storage.tigris.dev"

storage_Options_defaults(e) ==
    [BaseEndpoint |-> "https://t3.storage.dev",
     Region |-> "auto",
     UsePathStyle |-> FALSE,
     AccessKeyID |-> e.TIGRIS_STORAGE_ACCESS_KEY_ID,
     SecretAccessKey |-> e.TIGRIS_STORAGE_SECRET_ACCESS_KEY]

\* WithFlyEndpoint, WithGlobalEndpoint, WithEndpoint, WithRegion,
\* WithPathStyle, WithAccessKeypair: the body of each returned closure.
storage_Option_call(opt, o) ==
    CASE opt.fn = "WithFlyEndpoint" -> [o EXCEPT !.BaseEndpoint = FlyEndpoint]
      [] opt.fn = "WithGlobalEndpoint" -> [o EXCEPT !.BaseEndpoint = GlobalEndpoint]
      [] opt.fn = "WithEndpoint" -> [o EXCEPT !.BaseEndpoint = opt.a]
      [] opt.fn = "WithRegion" -> [o EXCEPT !.Region = opt.a]
      [] opt.fn = "WithPathStyle" -> [o EXCEPT !.UsePathStyle = opt.on]
      [] opt.fn = "WithAccessKeypair" ->
            [o EXCEPT !.AccessKeyID = opt.a, !.SecretAccessKey = opt.b]

\* for _, doer := range options { doer(&o) }
RECURSIVE storage_apply(_, _)
storage_apply(o, options) ==
    IF options = <<>> THEN o
    ELSE storage_apply(storage_Option_call(Head(options), o), Tail(options))

(***************************************************************************)
(* simplestorage.Options, simplestorage.Option                             *)
(***************************************************************************)
Options_defaults(e) ==
    [BucketName |-> e.TIGRIS_STORAGE_BUCKET,
     AccessKeyID |-> e.TIGRIS_STORAGE_ACCESS_KEY_ID,
     SecretAccessKey |-> e.TIGRIS_STORAGE_SECRET_ACCESS_KEY,
     BaseEndpoint |-> GlobalEndpoint,
     Region |-> "auto",
     UsePathStyle |-> FALSE]

Option_call(opt, o) ==
    CASE opt.fn = "WithBucket" -> [o EXCEPT !.BucketName = opt.a]
      [] opt.fn = "WithFlyEndpoint" -> [o EXCEPT !.BaseEndpoint = FlyEndpoint]
      [] opt.fn = "WithGlobalEndpoint" -> [o EXCEPT !.BaseEndpoint = GlobalEndpoint]
      [] opt.fn = "WithEndpoint" -> [o EXCEPT !.BaseEndpoint = opt.a]
      [] opt.fn = "WithRegion" -> [o EXCEPT !.Region = opt.a]
      [] opt.fn = "WithPathStyle" -> [o EXCEPT !.UsePathStyle = opt.on]
      [] opt.fn = "WithAccessKeypair" ->
            [o EXCEPT !.AccessKeyID = opt.a, !.SecretAccessKey = opt.b]

\* for _, doer := range options { doer(&o) }
RECURSIVE Options_apply(_, _)
Options_apply(o, options) ==
    IF options = <<>> THEN o
    ELSE Options_apply(Option_call(Head(options), o), Tail(options))

(***************************************************************************)
(* tigrisheaders                                                           *)
(***************************************************************************)
WithHeader(key, value) == [key |-> key, value |-> value]
tigrisheaders_WithEnableSnapshot == WithHeader("X-Tigris-Enable-Snapshot", "true")
tigrisheaders_WithSnapshotVersion(v) == WithHeader("X-Tigris-Snapshot-Version", v)
\* url.QueryEscape on the descriptions used here: a space becomes "+",
\* letters and digits are kept.
url_QueryEscape(s) == CASE s = "pre release" -> "pre+release" [] OTHER -> s
tigrisheaders_WithTakeSnapshot(desc) ==
    WithHeader("X-Tigris-Snapshot", "true; name=" \o url_QueryEscape(desc))
tigrisheaders_WithForkSourceBucket(source) == WithHeader("X-Tigris-Fork-Source-Bucket", source)
tigrisheaders_WithListSnapshots(bucket) == WithHeader("X-Tigris-Snapshot", bucket)
tigrisheaders_WithStaticReplicationRegions(r) == WithHeader("X-Tigris-Regions", r)
\* strings.Join(elems, sep)
RECURSIVE strings_Join(_, _)
strings_Join(elems, sep) ==
    IF elems = <<>> THEN ""
    ELSE IF Len(elems) = 1 THEN elems[1]
    ELSE elems[1] \o sep \o strings_Join(Tail(elems), sep)
\* t.Format(time.RFC1123) for the times used here.
time_Format_RFC1123(t) ==
    CASE t = "2023-01-15T08:30:00Z" -> "Sun, 15 Jan 2023 08:30:00 UTC"
      [] OTHER -> "Mon, 01 Jan 0001 00:00:00 UTC"
tigrisheaders_WithQuery(query) == WithHeader("X-Tigris-Query", query)
tigrisheaders_WithCreateObjectIfNotExists == WithHeader("If-Match", "\"\"")
tigrisheaders_WithIfEtagMatches(etag) == WithHeader("If-Match", etag)
tigrisheaders_WithModifiedSince(t) ==
    WithHeader("If-Modified-Since", time_Format_RFC1123(t))
tigrisheaders_WithUnmodifiedSince(t) ==
    WithHeader("If-Unmodified-Since", time_Format_RFC1123(t))
tigrisheaders_WithCompareAndSwap == WithHeader("X-Tigris-CAS", "true")
tigrisheaders_WithRename == WithHeader("X-Tigris-Rename", "true")

\* Running a helper's closure on an s3.Options value:
\* options.APIOptions = append(options.APIOptions, http.AddHeaderValue(key, value))
s3_Options_run_replacing(options, d) ==
    [options EXCEPT !.APIOptions =
        <<[mw |-> "http.AddHeaderValue", key |-> d.key, value |-> d.value]>>]
s3_Options_run(options, d) ==
    [options EXCEPT !.APIOptions =
        Append(@, [mw |-> "http.AddHeaderValue", key |-> d.key, value |-> d.value])]

(***************************************************************************)
(* simplestorage.ClientOptions, simplestorage.ClientOption                 *)
(***************************************************************************)
\* defaults populates client options from the global Options.
ClientOptions_defaults(o) ==
    [BucketName |-> o.BucketName,
     S3Options |-> <<>>,
     StartAfter |-> NilPtr,
     MaxKeys |-> NilPtr,
     Delimiter |-> NilPtr,
     Prefix |-> NilPtr,
     PaginationToken |-> NilPtr,
     ContentType |-> NilPtr,
     ContentDisposition |-> NilPtr]

ClientOption_call(opt, co) ==
    CASE opt.fn = "OverrideBucket" -> [co EXCEPT !.BucketName = opt.a]
      [] opt.fn = "WithS3Options" -> [co EXCEPT !.S3Options = co.S3Options \o opt.ds]
      [] opt.fn = "WithStartAfter" -> [co EXCEPT !.StartAfter = Ptr(opt.a)]
      [] opt.fn = "WithMaxKeys" -> [co EXCEPT !.MaxKeys = Ptr(opt.n)]
      [] opt.fn = "WithDelimiter" -> [co EXCEPT !.Delimiter = Ptr(opt.a)]
      [] opt.fn = "WithPrefix" -> [co EXCEPT !.Prefix = Ptr(opt.a)]
      [] opt.fn = "WithPaginationToken" -> [co EXCEPT !.PaginationToken = Ptr(opt.a)]
      [] opt.fn = "WithContentType" -> [co EXCEPT !.ContentType = Ptr(opt.a)]
      [] opt.fn = "WithContentDisposition" ->
            [co EXCEPT !.ContentDisposition = Ptr(opt.a)]

\* for _, doer := range opts { doer(&o) }
RECURSIVE ClientOptions_apply(_, _)
ClientOptions_apply(o, opts) ==
    IF opts = <<>> THEN o
    ELSE ClientOptions_apply(ClientOption_call(Head(opts), o), Tail(opts))

(***************************************************************************)
(* simplestorage.BucketOptions, simplestorage.BucketOption                 *)
(***************************************************************************)
BucketOptions_defaults ==
    [EnableSnapshot |-> FALSE,
     SnapshotVersion |-> "",
     ForceDelete |-> FALSE,
     Region |-> "",
     MaxKeys |-> NilPtr,
     ContinuationToken |-> NilPtr,
     S3Options |-> <<>>]

\* WithForceDelete(): the option DeleteBucket reads as o.ForceDelete.
WithForceDelete(o) == [o EXCEPT !.ForceDelete = TRUE]

BucketOption_call(opt, o) ==
    CASE opt.fn = "WithForceDelete" -> WithForceDelete(o)
      [] opt.fn = "WithEnableSnapshot" ->
            [o EXCEPT !.EnableSnapshot = TRUE,
                      !.S3Options = Append(o.S3Options, tigrisheaders_WithEnableSnapshot)]
      [] opt.fn = "WithSnapshotVersion" ->
            [o EXCEPT !.SnapshotVersion = opt.a,
                      !.S3Options = Append(o.S3Options,
                                           tigrisheaders_WithSnapshotVersion(opt.a))]
      [] opt.fn = "WithBucketRegion" ->
            [o EXCEPT !.Region = opt.a,
                      !.S3Options = Append(o.S3Options,
                                           tigrisheaders_WithStaticReplicationRegions(opt.a))]
      [] opt.fn = "WithListLimit" -> [o EXCEPT !.MaxKeys = Ptr(opt.n)]
      [] opt.fn = "WithListToken" -> [o EXCEPT !.ContinuationToken = Ptr(opt.a)]

\* A resolver that stops after the first option function.
BucketOptions_apply_first(o, opts) ==
    IF opts = <<>> THEN o ELSE BucketOption_call(Head(opts), o)

\* for _, doer := range opts { doer(&o) }
RECURSIVE BucketOptions_apply(_, _)
BucketOptions_apply(o, opts) ==
    IF opts = <<>> THEN o
    ELSE BucketOptions_apply(BucketOption_call(Head(opts), o), Tail(opts))

(***************************************************************************)
(* storage.New                                                             *)
(***************************************************************************)
\* cfgOK: whether awsConfig.LoadDefaultConfig succeeded.
storage_New(e, options, cfgOK) ==
    LET o == storage_apply(storage_Options_defaults(e), options)
        creds == IF o.AccessKeyID # "" /\ o.SecretAccessKey # ""
                 THEN Ptr(<<o.AccessKeyID, o.SecretAccessKey>>)
                 ELSE NilPtr
    IN  IF ~cfgOK
        THEN [cli |-> NilPtr, err |-> Errorf("failed to load Tigris config")]
        ELSE [cli |-> Ptr([BaseEndpoint |-> o.BaseEndpoint,
                           Region |-> o.Region,
                           UsePathStyle |-> o.UsePathStyle,
                           Credentials |-> creds]),
              err |-> NoErr]

(***************************************************************************)
(* simplestorage.New                                                       *)
(***************************************************************************)
ErrNoBucketName == errors_New("bucket name not set")

\* The storage options New derives from the resolved Options.
New_storageOpts(o) ==
    (IF o.BaseEndpoint # GlobalEndpoint
     THEN <<Opt("WithEndpoint", o.BaseEndpoint, "")>> ELSE <<>>)
    \o <<Opt("WithRegion", o.Region, ""), OptB("WithPathStyle", o.UsePathStyle)>>
    \o (IF o.AccessKeyID # "" /\ o.SecretAccessKey # ""
        THEN <<Opt("WithAccessKeypair", o.AccessKeyID, o.SecretAccessKey)>>
        ELSE <<>>)

\* The bucket check of New (errs is what it appends to).
New_errs_unchecked(o) == <<>>
New_errs(o) == IF o.BucketName = "" THEN <<ErrNoBucketName>> ELSE <<>>

\* New(ctx, options...): the returned client, the error, and the calls made.
New(e, options, cfgOK) ==
    LET o == Options_apply(Options_defaults(e), options)
        errs == New_errs(o)
        storageOpts == New_storageOpts(o)
        r == storage_New(e, storageOpts, cfgOK)
    IN  IF Len(errs) # 0
        THEN [client |-> NilPtr,
              err |-> Errorf_w("simplestorage: can't create client", errors_Join(errs)),
              calls |-> <<>>]
        ELSE IF r.err # NoErr
        THEN [client |-> NilPtr,
              err |-> Errorf_w("simplestorage: can't create storage client", r.err),
              calls |-> <<[api |-> "storage.New", opts |-> storageOpts]>>]
        ELSE [client |-> Ptr([cli |-> r.cli, options |-> o]),
              err |-> NoErr,
              calls |-> <<[api |-> "storage.New", opts |-> storageOpts]>>]

(***************************************************************************)
(* Client.For                                                              *)
(***************************************************************************)
\* For(bucket) on the client c. ret is the Client the returned pointer
\* refers to, receiver is c after the call, fresh tells whether the returned
\* pointer is a new allocation rather than the receiver, calls is what was
\* asked of the storage package.
For_inPlace(c, bucket) ==
    [ret |-> [c EXCEPT !.options.BucketName = bucket],
     receiver |-> [c EXCEPT !.options.BucketName = bucket],
     fresh |-> FALSE,
     calls |-> <<>>]
For(c, bucket) ==
    [ret |-> [cli |-> c.cli, options |-> [c.options EXCEPT !.BucketName = bucket]],
     receiver |-> c,
     fresh |-> TRUE,
     calls |-> <<>>]

(***************************************************************************)
(* Client.PresignURL                                                       *)
(***************************************************************************)
MethodGet == "GET"
MethodPut == "PUT"
MethodDelete == "DELETE"

\* case http.MethodGet, http.MethodPut, http.MethodDelete:
PresignURL_supported_anyCase(method) ==
    method \in {"GET", "PUT", "DELETE", "get", "put", "delete", "Get", "Put", "Delete"}
PresignURL_supported(method) == method \in {MethodGet, MethodPut, MethodDelete}

\* The three checks PresignURL makes before anything else, in order; NoErr
\* when all pass.
PresignURL_validate_keyFirst(method, key, expiry) ==
    IF key = ""
    THEN Errorf("simplestorage: key cannot be empty for presigned URL")
    ELSE IF ~PresignURL_supported(method)
    THEN Errorf("simplestorage: unsupported HTTP method for presigned URL")
    ELSE IF expiry <= 0
    THEN Errorf("simplestorage: invalid expiry duration for presigned URL")
    ELSE NoErr
PresignURL_validate(method, key, expiry) ==
    IF ~PresignURL_supported(method)
    THEN Errorf("simplestorage: unsupported HTTP method for presigned URL")
    ELSE IF key = ""
    THEN Errorf("simplestorage: key cannot be empty for presigned URL")
    ELSE IF expiry <= 0
    THEN Errorf("simplestorage: invalid expiry duration for presigned URL")
    ELSE NoErr

\* return "", fmt.Errorf(...): what a failed check leaves behind.
PresignURL_rejected_late(err, opts) ==
    [url |-> "", err |-> err, applied |-> Len(opts), presigners |-> 1, calls |-> <<>>]
PresignURL_rejected(err, opts) ==
    [url |-> "", err |-> err, applied |-> 0, presigners |-> 0, calls |-> <<>>]

\* The input each presign helper hands to the presign client.
presignURLGet(bucket, key, expiry) ==
    [api |-> "PresignGetObject", Bucket |-> Ptr(bucket), Key |-> Ptr(key),
     Expires |-> expiry]

presignURLPut_noHeaders(bucket, key, expiry, opts) ==
    [api |-> "PresignPutObject", Bucket |-> Ptr(bucket), Key |-> Ptr(key),
     Expires |-> expiry, ContentType |-> NilPtr, ContentDisposition |-> NilPtr]
presignURLPut(bucket, key, expiry, opts) ==
    [api |-> "PresignPutObject", Bucket |-> Ptr(bucket), Key |-> Ptr(key),
     Expires |-> expiry,
     ContentType |-> IF opts.ContentType # NilPtr THEN opts.ContentType ELSE NilPtr,
     ContentDisposition |-> IF opts.ContentDisposition # NilPtr
                            THEN opts.ContentDisposition ELSE NilPtr]

presignURLDelete(bucket, key, expiry) ==
    [api |-> "PresignDeleteObject", Bucket |-> Ptr(bucket), Key |-> Ptr(key),
     Expires |-> expiry]

\* The result of a presign helper: the signed URL, or the SDK's error wrapped.
presignResult(prefix, req, sdkOK) ==
    IF sdkOK
    THEN [url |-> "https://signed.url", err |-> NoErr]
    ELSE [url |-> "", err |-> Errorf_w(prefix, errors_New("sdk: presign failed"))]

\* PresignURL(ctx, method, key, expiry, opts...) on client c; sdkOK: whether
\* the presign client's call succeeds.
PresignURL(c, method, key, expiry, opts, sdkOK) ==
    LET verr == PresignURL_validate(method, key, expiry)
        o == ClientOptions_apply(ClientOptions_defaults(c.options), opts)
        req == CASE method = MethodGet -> presignURLGet(o.BucketName, key, expiry)
                 [] method = MethodPut -> presignURLPut(o.BucketName, key, expiry, o)
                 [] method = MethodDelete -> presignURLDelete(o.BucketName, key, expiry)
        prefix == CASE method = MethodGet -> "presign get"
                    [] method = MethodPut -> "presign put"
                    [] method = MethodDelete -> "presign delete"
        r == presignResult(prefix, req, sdkOK)
    IN  IF verr # NoErr
        THEN PresignURL_rejected(verr, opts)
        ELSE [url |-> r.url, err |-> r.err, applied |-> Len(opts), presigners |-> 1,
              calls |-> <<req>>]

(***************************************************************************)
(* The backing service, as far as the facade depends on it: PutObject      *)
(* keeps what the request carries, HeadObject and GetObject return what    *)
(* was kept.                                                               *)
(***************************************************************************)
\* A field of an SDK input the facade may have left unset.
Field(req, f) == IF f \in DOMAIN req THEN req[f] ELSE NilPtr

\* The object the service keeps for a PutObject request it answered with resp.
Stored(req, resp) ==
    [ContentType |-> Field(req, "ContentType"),
     ContentDisposition |-> Field(req, "ContentDisposition"),
     ContentLength |-> Field(req, "ContentLength"),
     Metadata |-> IF "Metadata" \in DOMAIN req THEN req.Metadata ELSE {},
     ETag |-> resp.ETag,
     VersionId |-> resp.VersionId,
     LastModified |-> Ptr("t1"),
     Body |-> req.Body]

\* The answer to HeadObject/GetObject for bucket and key: ok tells whether
\* the call succeeded, which it cannot when nothing is kept there.
ObjectOutput(st, bucket, key, transportOK) ==
    IF transportOK /\ <<bucket, key>> \in DOMAIN st /\ st[<<bucket, key>>] # NilPtr
    THEN [ok |-> TRUE, out |-> st[<<bucket, key>>][1]]
    ELSE [ok |-> FALSE, out |-> NilPtr]

(***************************************************************************)
(* Client.Put, Client.Head, Client.Get                                     *)
(***************************************************************************)
\* &s3.PutObjectInput{...}, o.S3Options...
Put_input(obj0, o) ==
    [api |-> "PutObject",
     Bucket |-> Ptr(o.BucketName),
     Key |-> Ptr(obj0.Key),
     Body |-> obj0.Body,
     ContentType |-> raise(obj0.ContentType, ""),
     ContentLength |-> raise(obj0.Size, 0),
     S3Options |-> o.S3Options]

\* obj.Bucket, obj.Etag and obj.Version after a successful PutObject.
Put_update_noVersion(obj0, o, resp) ==
    [obj0 EXCEPT !.Bucket = o.BucketName, !.Etag = lower(resp.ETag, "")]
Put_update(obj0, o, resp) ==
    [obj0 EXCEPT !.Bucket = o.BucketName,
                 !.Etag = lower(resp.ETag, ""),
                 !.Version = lower(resp.VersionId, "")]

\* Put(ctx, obj, opts...) on client c; resp is the SDK's answer. ret is the
\* returned pointer: nil, or "obj", the pointer that was passed in.
Put(c, obj0, opts, resp) ==
    LET o == ClientOptions_apply(ClientOptions_defaults(c.options), opts)
        req == Put_input(obj0, o)
    IN  IF ~resp.ok
        THEN [ret |-> NilPtr, obj |-> obj0, calls |-> <<req>>, bucket |-> o.BucketName,
              err |-> Errorf_v("simplestorage: can't put", errors_New("sdk: put failed"))]
        ELSE [ret |-> Ptr("obj"), obj |-> Put_update(obj0, o, resp), calls |-> <<req>>,
              bucket |-> o.BucketName, err |-> NoErr]

\* Head(ctx, key, opts...) on client c against the service state st.
Head_(c, key, opts, st, transportOK) ==
    LET o == ClientOptions_apply(ClientOptions_defaults(c.options), opts)
        req == [api |-> "HeadObject", Bucket |-> Ptr(o.BucketName), Key |-> Ptr(key),
                S3Options |-> o.S3Options]
        r == ObjectOutput(st, o.BucketName, key, transportOK)
        resp == r.out
    IN  IF ~r.ok
        THEN [ret |-> NilPtr, calls |-> <<req>>,
              err |-> Errorf_v("simplestorage: can't head", errors_New("sdk: head failed"))]
        ELSE [ret |-> Ptr([Bucket |-> o.BucketName,
                           Key |-> key,
                           ContentType |-> lower(resp.ContentType, "application/octet-stream"),
                           ContentDisposition |-> lower(resp.ContentDisposition, ""),
                           Etag |-> lower(resp.ETag, ""),
                           Size |-> lower(resp.ContentLength, 0),
                           Version |-> lower(resp.VersionId, ""),
                           LastModified |-> lower(resp.LastModified, ""),
                           Metadata |-> resp.Metadata,
                           Body |-> NilPtr]),
              calls |-> <<req>>, err |-> NoErr]

\* Get(ctx, key, opts...) on client c against the service state st.
Get(c, key, opts, st, transportOK) ==
    LET o == ClientOptions_apply(ClientOptions_defaults(c.options), opts)
        req == [api |-> "GetObject", Bucket |-> Ptr(o.BucketName), Key |-> Ptr(key),
                S3Options |-> o.S3Options]
        r == ObjectOutput(st, o.BucketName, key, transportOK)
        resp == r.out
    IN  IF ~r.ok
        THEN [ret |-> NilPtr, calls |-> <<req>>,
              err |-> Errorf_v("simplestorage: can't get", errors_New("sdk: get failed"))]
        ELSE [ret |-> Ptr([Bucket |-> o.BucketName,
                           Key |-> key,
                           ContentType |-> lower(resp.ContentType, "application/octet-stream"),
                           ContentDisposition |-> "",
                           Etag |-> lower(resp.ETag, ""),
                           Size |-> lower(resp.ContentLength, 0),
                           Version |-> lower(resp.VersionId, ""),
                           LastModified |-> lower(resp.LastModified, ""),
                           Metadata |-> resp.Metadata,
                           Body |-> Ptr(resp.Body)]),
              calls |-> <<req>>, err |-> NoErr]

(***************************************************************************)
(* Client.Delete                                                           *)
(***************************************************************************)
\* Delete(ctx, key, opts...) on client c; ok: whether DeleteObject succeeds.
Delete(c, key, opts, ok) ==
    LET o == ClientOptions_apply(ClientOptions_defaults(c.options), opts)
        req == [api |-> "DeleteObject", Bucket |-> Ptr(o.BucketName), Key |-> Ptr(key),
                S3Options |-> o.S3Options]
    IN  IF ~ok
        THEN [calls |-> <<req>>, bucket |-> o.BucketName,
              err |-> Errorf_v("simplestorage: can't delete",
                               errors_New("sdk: delete failed"))]
        ELSE [calls |-> <<req>>, bucket |-> o.BucketName, err |-> NoErr]

(***************************************************************************)
(* Client.List, Client.ListBuckets                                         *)
(***************************************************************************)
\* for _, obj := range resp.Contents { result.Items = append(...) }
RECURSIVE List_items(_, _)
List_items(bucket, contents) ==
    IF contents = <<>> THEN <<>>
    ELSE <<[Bucket |-> bucket,
            Key |-> lower(Head(contents).Key, ""),
            Etag |-> lower(Head(contents).ETag, ""),
            Size |-> lower(Head(contents).Size, 0),
            LastModified |-> lower(Head(contents).LastModified, "")]>>
         \o List_items(bucket, Tail(contents))

\* List(ctx, opts...) on client c; resp is the SDK's answer.
List_dropToken(c, opts, resp) ==
    LET o == ClientOptions_apply(ClientOptions_defaults(c.options), opts)
        req == [api |-> "ListObjectsV2",
                Bucket |-> Ptr(o.BucketName),
                Delimiter |-> o.Delimiter,
                Prefix |-> o.Prefix,
                MaxKeys |-> o.MaxKeys,
                ContinuationToken |-> NilPtr,
                StartAfter |-> o.StartAfter,
                S3Options |-> o.S3Options]
    IN  IF ~resp.ok
        THEN [ret |-> NilPtr, calls |-> <<req>>,
              err |-> Errorf_v("simplestorage: can't list", errors_New("sdk: list failed"))]
        ELSE [ret |-> Ptr([Items |-> List_items(o.BucketName, resp.Contents),
                           HasMore |-> lower(resp.IsTruncated, FALSE),
                           NextToken |-> lower(resp.NextContinuationToken, "")]),
              calls |-> <<req>>, err |-> NoErr]
List(c, opts, resp) ==
    LET o == ClientOptions_apply(ClientOptions_defaults(c.options), opts)
        req == [api |-> "ListObjectsV2",
                Bucket |-> Ptr(o.BucketName),
                Delimiter |-> o.Delimiter,
                Prefix |-> o.Prefix,
                MaxKeys |-> o.MaxKeys,
                ContinuationToken |-> o.PaginationToken,
                StartAfter |-> o.StartAfter,
                S3Options |-> o.S3Options]
    IN  IF ~resp.ok
        THEN [ret |-> NilPtr, calls |-> <<req>>,
              err |-> Errorf_v("simplestorage: can't list", errors_New("sdk: list failed"))]
        ELSE [ret |-> Ptr([Items |-> List_items(o.BucketName, resp.Contents),
                           HasMore |-> lower(resp.IsTruncated, FALSE),
                           NextToken |-> lower(resp.NextContinuationToken, "")]),
              calls |-> <<req>>, err |-> NoErr]

\* for _, b := range resp.Buckets { result.Buckets = append(...) }
RECURSIVE ListBuckets_buckets(_)
ListBuckets_buckets(buckets) ==
    IF buckets = <<>> THEN <<>>
    ELSE <<[Name |-> Head(buckets).Name[1],
            Created |-> lower(Head(buckets).CreationDate, "")]>>
         \o ListBuckets_buckets(Tail(buckets))

\* ListBuckets(ctx, opts...); resp is the SDK's answer.
ListBuckets(opts, resp) ==
    LET o == BucketOptions_apply(BucketOptions_defaults, opts)
        req == [api |-> "ListBuckets",
                ContinuationToken |-> o.ContinuationToken,
                S3Options |-> o.S3Options]
    IN  IF ~resp.ok
        THEN [ret |-> NilPtr, calls |-> <<req>>,
              err |-> Errorf_w("simplestorage: can't list buckets",
                               errors_New("sdk: list buckets failed"))]
        ELSE [ret |-> Ptr([Buckets |-> ListBuckets_buckets(resp.Buckets),
                           Truncated |-> resp.ContinuationToken # NilPtr,
                           NextToken |-> IF resp.ContinuationToken # NilPtr
                                         THEN resp.ContinuationToken[1] ELSE ""]),
              calls |-> <<req>>, err |-> NoErr]

(***************************************************************************)
(* The backing service's buckets, as the SDK calls of buckets.go see them. *)
(* svc maps a bucket name to nil (no such bucket) or to a pointer to the   *)
(* keys it holds, in key order.                                            *)
(***************************************************************************)
s3_Transport == errors_New("sdk: transport failure")
s3_NoSuchBucket == errors_New("s3: NoSuchBucket")
s3_BucketNotEmpty == errors_New("s3: BucketNotEmpty")
s3_BucketAlreadyExists == errors_New("s3: BucketAlreadyOwnedByYou")
s3_AccessDenied == errors_New("s3: AccessDenied")

\* A ListObjectsV2 answer holds at most one page of keys (1000 on S3); the
\* model keeps the page one key shorter than the largest bucket.
ServicePageSize == MaxObjects - 1

ServicePage(keys) == SubSeq(keys, 1, IF Len(keys) < ServicePageSize THEN Len(keys) ELSE ServicePageSize)

\* c.cli.ListObjectsV2(ctx, {Bucket}, o.S3Options...): the answer, or an error.
s3_ListObjectsV2(s, bucket, fails) ==
    IF fails THEN [err |-> s3_Transport, Contents |-> <<>>]
    ELSE IF s[bucket] = NilPtr THEN [err |-> s3_NoSuchBucket, Contents |-> <<>>]
    ELSE [err |-> NoErr,
          Contents |-> [i \in DOMAIN ServicePage(s[bucket][1]) |->
                           [Key |-> Ptr(ServicePage(s[bucket][1])[i])]]]

\* c.cli.DeleteObject(ctx, {Bucket, Key}, o.S3Options...): deleting a key
\* that is not there succeeds.
s3_DeleteObject(s, bucket, key, fails) ==
    IF fails THEN [err |-> s3_Transport, svc |-> s]
    ELSE IF s[bucket] = NilPtr THEN [err |-> s3_NoSuchBucket, svc |-> s]
    ELSE [err |-> NoErr,
          svc |-> [s EXCEPT ![bucket] =
                      Ptr(SelectSeq(s[bucket][1], LAMBDA k : k # key))]]

\* c.cli.DeleteBucket(ctx, {Bucket}, o.S3Options...): only an empty bucket
\* can be deleted.
s3_DeleteBucket(s, bucket, fails) ==
    IF fails THEN [err |-> s3_Transport, svc |-> s]
    ELSE IF s[bucket] = NilPtr THEN [err |-> s3_NoSuchBucket, svc |-> s]
    ELSE IF s[bucket][1] # <<>> THEN [err |-> s3_BucketNotEmpty, svc |-> s]
    ELSE [err |-> NoErr, svc |-> [s EXCEPT ![bucket] = NilPtr]]

(***************************************************************************)
(* Client.DeleteBucket, Client.emptyBucket                                 *)
(* fail is the position, among the backing calls of one operation, of the  *)
(* call that meets a transport failure (0: none does).                     *)
(***************************************************************************)
ErrBucketNotFound == errors_New("simplestorage: bucket not found")
ErrBucketNotEmpty == errors_New("simplestorage: bucket not empty")
ErrSnapshotRequired ==
    errors_New("simplestorage: snapshot version required for this operation")

MsgBucketRequired ==
    "simplestorage: bucket name required for bucket management operations"
MsgSourceRequired ==
    "simplestorage: source bucket name required for bucket management operations"
MsgTargetRequired ==
    "simplestorage: target bucket name required for bucket management operations"

\* What a bucket operation hands back to its action: the returned value and
\* error, the backing calls it made, the service's buckets afterwards, and
\* how many option functions it ran.
BucketResult(ret, err, cs, s, applied) ==
    [ret |-> ret, err |-> err, calls |-> cs, svc |-> s, applied |-> applied]

\* A backing call as the calls of an operation keep it: the request and the
\* error the SDK answered with.
Answered(req, e) ==
    [f \in DOMAIN req \cup {"err"} |-> IF f = "err" THEN e ELSE req[f]]

\* for _, obj := range listResp.Contents { c.cli.DeleteObject(...) }
RECURSIVE emptyBucket_loop(_, _, _, _, _, _)
emptyBucket_loop(s, bucket, o, contents, cs, fail) ==
    IF contents = <<>> THEN [err |-> NoErr, calls |-> cs, svc |-> s]
    ELSE LET req == [api |-> "DeleteObject", Bucket |-> Ptr(bucket),
                     Key |-> Head(contents).Key, S3Options |-> o.S3Options]
             r == s3_DeleteObject(s, bucket, Head(contents).Key[1],
                                  fail = Len(cs) + 1)
         IN  IF r.err # NoErr
             THEN [err |-> Errorf_w("can't delete object", r.err),
                   calls |-> Append(cs, Answered(req, r.err)), svc |-> r.svc]
             ELSE emptyBucket_loop(r.svc, bucket, o, Tail(contents),
                                   Append(cs, Answered(req, r.err)), fail)

emptyBucket(s, bucket, o, fail) ==
    LET req == [api |-> "ListObjectsV2", Bucket |-> Ptr(bucket),
                S3Options |-> o.S3Options]
        listResp == s3_ListObjectsV2(s, bucket, fail = 1)
    IN  IF listResp.err # NoErr
        THEN [err |-> Errorf_w("can't list objects", listResp.err),
              calls |-> <<Answered(req, listResp.err)>>, svc |-> s]
        ELSE emptyBucket_loop(s, bucket, o, listResp.Contents,
                              <<Answered(req, listResp.err)>>, fail)

\* The tail of DeleteBucket: the delete-bucket call itself, after the backing
\* calls cs left the service's buckets as s.
DeleteBucket_delete(s, bucket, o, cs, fail, applied) ==
    \* svcAtCall records the service's buckets when the call was issued.
    LET req == [api |-> "DeleteBucket", Bucket |-> Ptr(bucket),
                S3Options |-> o.S3Options, svcAtCall |-> s]
        r == s3_DeleteBucket(s, bucket, fail = Len(cs) + 1)
    IN  BucketResult(NilPtr,
                     IF r.err # NoErr
                     THEN Errorf_w("simplestorage: can't delete bucket", r.err)
                     ELSE NoErr,
                     Append(cs, Answered(req, r.err)), r.svc, applied)

\* A DeleteBucket that empties the bucket whatever the options say, and one
\* that never does.
DeleteBucket_force_always(o) == TRUE
DeleteBucket_force_never(o) == FALSE
DeleteBucket_force(o) == o.ForceDelete

\* A DeleteBucket that goes on to the bucket delete when emptying failed.
DeleteBucket_deleteAnyway(s, bucket, opts, fail) ==
    IF bucket = ""
    THEN BucketResult(NilPtr, errors_New(MsgBucketRequired), <<>>, s, 0)
    ELSE LET o == BucketOptions_apply(BucketOptions_defaults, opts)
         IN  IF DeleteBucket_force(o)
             THEN LET e == emptyBucket(s, bucket, o, fail)
                  IN  DeleteBucket_delete(e.svc, bucket, o, e.calls, fail, Len(opts))
             ELSE DeleteBucket_delete(s, bucket, o, <<>>, fail, Len(opts))
DeleteBucket(s, bucket, opts, fail) ==
    IF bucket = ""
    THEN BucketResult(NilPtr, errors_New(MsgBucketRequired), <<>>, s, 0)
    ELSE LET o == BucketOptions_apply(BucketOptions_defaults, opts)
         IN  IF DeleteBucket_force(o)
             THEN LET e == emptyBucket(s, bucket, o, fail)
                  IN  IF e.err # NoErr
                      THEN BucketResult(NilPtr,
                               Errorf_w("simplestorage: can't empty bucket", e.err),
                               e.calls, e.svc, Len(opts))
                      ELSE DeleteBucket_delete(e.svc, bucket, o, e.calls, fail,
                                               Len(opts))
             ELSE DeleteBucket_delete(s, bucket, o, <<>>, fail, Len(opts))

(***************************************************************************)
(* storage.Client: CreateSnapshotEnabledBucket, CreateBucketSnapshot,      *)
(* HeadBucketForkOrSnapshot. Each appends its header to opts and makes     *)
(* one SDK call.                                                           *)
(***************************************************************************)
HasHeader(opts, key) == \E i \in DOMAIN opts : opts[i].key = key
HeaderValue(opts, key) ==
    opts[CHOOSE i \in DOMAIN opts : opts[i].key = key].value

\* c.Client.CreateBucket(ctx, in, opts...) as the service treats it: a
\* snapshot request needs the bucket, a fork needs the source and a free
\* target name, a plain creation needs a free name.
s3_CreateBucket(s, bucket, opts, fails) ==
    IF fails THEN [err |-> s3_Transport, svc |-> s]
    ELSE IF HasHeader(opts, "X-Tigris-Snapshot")
    THEN IF s[bucket] = NilPtr THEN [err |-> s3_NoSuchBucket, svc |-> s]
         ELSE [err |-> NoErr, svc |-> s]
    ELSE IF s[bucket] # NilPtr THEN [err |-> s3_BucketAlreadyExists, svc |-> s]
    ELSE IF HasHeader(opts, "X-Tigris-Fork-Source-Bucket")
    THEN LET source == HeaderValue(opts, "X-Tigris-Fork-Source-Bucket")
         IN  IF source \notin DOMAIN s \/ s[source] = NilPtr
             THEN [err |-> s3_NoSuchBucket, svc |-> s]
             ELSE [err |-> NoErr, svc |-> [s EXCEPT ![bucket] = s[source]]]
    ELSE [err |-> NoErr, svc |-> [s EXCEPT ![bucket] = Ptr(<<>>)]]

CreateBucketRequest(bucket, opts) ==
    [api |-> "CreateBucket", Bucket |-> Ptr(bucket), S3Options |-> opts]

storage_CreateSnapshotEnabledBucket_opts(opts) ==
    Append(opts, tigrisheaders_WithEnableSnapshot)

storage_CreateSnapshotEnabledBucket(s, bucket, opts, fails) ==
    LET all == storage_CreateSnapshotEnabledBucket_opts(opts)
    IN  [req |-> [CreateBucketRequest(bucket, all) EXCEPT
                     !.api = "CreateSnapshotEnabledBucket"],
         out |-> s3_CreateBucket(s, bucket, all, fails)]

storage_CreateBucketSnapshot(s, description, bucket, opts, fails) ==
    LET all == Append(opts, tigrisheaders_WithTakeSnapshot(description))
    IN  [req |-> [CreateBucketRequest(bucket, all) EXCEPT
                     !.api = "CreateBucketSnapshot"],
         out |-> s3_CreateBucket(s, bucket, all, fails)]

\* resp is the answer to HeadBucket: its error, whether the raw response is
\* an *http.Response, and the raw response's headers.
storage_HeadBucketForkOrSnapshot_emptyOnUntyped(resp) ==
    IF resp.err # NoErr THEN [out |-> NilPtr, err |-> resp.err]
    ELSE IF ~resp.rawOK
    THEN [out |-> Ptr([SnapshotsEnabled |-> FALSE, SourceBucket |-> "",
                       SourceBucketSnapshot |-> "", IsForkParent |-> FALSE]),
          err |-> NoErr]
    ELSE [out |-> Ptr([SnapshotsEnabled |-> resp.header.EnableSnapshot = "true",
                       SourceBucket |-> resp.header.ForkSourceBucket,
                       SourceBucketSnapshot |-> resp.header.ForkSourceBucketSnapshot,
                       IsForkParent |-> resp.header.IsForkParent = "true"]),
          err |-> NoErr]
storage_HeadBucketForkOrSnapshot(resp) ==
    IF resp.err # NoErr THEN [out |-> NilPtr, err |-> resp.err]
    ELSE IF ~resp.rawOK
    THEN [out |-> NilPtr, err |-> Errorf("unexpected response type from middleware")]
    ELSE [out |-> Ptr([SnapshotsEnabled |-> resp.header.EnableSnapshot = "true",
                       SourceBucket |-> resp.header.ForkSourceBucket,
                       SourceBucketSnapshot |-> resp.header.ForkSourceBucketSnapshot,
                       IsForkParent |-> resp.header.IsForkParent = "true"]),
          err |-> NoErr]

\* HeadBucketForkOrSnapshot(ctx, in, opts...) with the HeadBucket call it makes.
storage_HeadBucketForkOrSnapshot_call(in, opts, resp) ==
    LET r == storage_HeadBucketForkOrSnapshot(resp)
    IN  [out |-> r.out, err |-> r.err,
         calls |-> <<[api |-> "HeadBucket", Bucket |-> in.Bucket, S3Options |-> opts]>>]

(***************************************************************************)
(* Client.CreateBucket, GetBucketInfo, CreateBucketSnapshot,               *)
(* ListBucketSnapshots, ForkBucket                                         *)
(***************************************************************************)
ZeroBucketInfo ==
    [Name |-> "", Created |-> "", SnapshotsEnabled |-> FALSE,
     IsForkParent |-> FALSE, SourceBucket |-> "", SourceSnapshot |-> ""]

\* time.Now() at the calls below.
Now == "now"

CreateBucket(s, bucket, opts, fail) ==
    IF bucket = ""
    THEN BucketResult(NilPtr, errors_New(MsgBucketRequired), <<>>, s, 0)
    ELSE LET o == BucketOptions_apply(BucketOptions_defaults, opts)
             snap == storage_CreateSnapshotEnabledBucket(s, bucket, o.S3Options,
                                                         fail = 1)
             req == IF o.EnableSnapshot THEN snap.req
                    ELSE CreateBucketRequest(bucket, o.S3Options)
             out == IF o.EnableSnapshot THEN snap.out
                    ELSE s3_CreateBucket(s, bucket, o.S3Options, fail = 1)
         IN  IF out.err # NoErr
             THEN BucketResult(NilPtr,
                               Errorf_w("simplestorage: can't create bucket", out.err),
                               <<req>>, out.svc, Len(opts))
             ELSE BucketResult(Ptr([ZeroBucketInfo EXCEPT !.Name = bucket,
                                                          !.Created = Now]),
                               NoErr, <<req>>, out.svc, Len(opts))

\* A GetBucketInfo that surfaces the metadata call's error.
GetBucketInfo_fallback_surface(bucket, err) == [ret |-> NilPtr, err |-> err]
GetBucketInfo_fallback(bucket, err) ==
    [ret |-> Ptr([ZeroBucketInfo EXCEPT !.Name = bucket]), err |-> NoErr]

GetBucketInfo(s, bucket, opts, resp) ==
    IF bucket = ""
    THEN BucketResult(NilPtr, errors_New(MsgBucketRequired), <<>>, s, 0)
    ELSE LET o == BucketOptions_apply(BucketOptions_defaults, opts)
             req == [api |-> "HeadBucketForkOrSnapshot", Bucket |-> Ptr(bucket),
                     S3Options |-> o.S3Options]
             h == storage_HeadBucketForkOrSnapshot(resp)
             fb == GetBucketInfo_fallback(bucket, h.err)
         IN  IF h.err = NoErr
             THEN BucketResult(
                      Ptr([ZeroBucketInfo EXCEPT
                              !.Name = bucket,
                              !.SnapshotsEnabled = h.out[1].SnapshotsEnabled,
                              !.IsForkParent = h.out[1].IsForkParent,
                              !.SourceBucket = h.out[1].SourceBucket,
                              !.SourceSnapshot = h.out[1].SourceBucketSnapshot]),
                      NoErr, <<req>>, s, Len(opts))
             ELSE BucketResult(fb.ret, fb.err, <<req>>, s, Len(opts))

CreateBucketSnapshot(s, bucket, description, opts, fail) ==
    IF bucket = ""
    THEN BucketResult(NilPtr, errors_New(MsgBucketRequired), <<>>, s, 0)
    ELSE LET o == BucketOptions_apply(BucketOptions_defaults, opts)
             snap == storage_CreateBucketSnapshot(s, description, bucket,
                                                  o.S3Options, fail = 1)
         IN  IF snap.out.err # NoErr
             THEN BucketResult(NilPtr,
                      Errorf_w("simplestorage: can't create snapshot for bucket",
                               snap.out.err),
                      <<snap.req>>, snap.out.svc, Len(opts))
             ELSE BucketResult(Ptr([Name |-> description, Version |-> "",
                                    Created |-> Now, Bucket |-> bucket]),
                               NoErr, <<snap.req>>, snap.out.svc, Len(opts))

\* for _, b := range resp.Buckets { result.Snapshots = append(...) }
RECURSIVE ListBucketSnapshots_snapshots(_, _)
ListBucketSnapshots_snapshots(bucket, entries) ==
    IF entries = <<>> THEN <<>>
    ELSE <<[Name |-> lower(Head(entries).Name, ""),
            Version |-> lower(Head(entries).Name, ""),
            Created |-> lower(Head(entries).CreationDate, ""),
            Bucket |-> bucket]>>
         \o ListBucketSnapshots_snapshots(bucket, Tail(entries))

\* resp is the SDK's answer to ListBuckets.
ListBucketSnapshots(s, bucket, opts, resp) ==
    IF bucket = ""
    THEN BucketResult(NilPtr, errors_New(MsgBucketRequired), <<>>, s, 0)
    ELSE LET o == BucketOptions_apply(BucketOptions_defaults, opts)
             all == Append(o.S3Options, tigrisheaders_WithListSnapshots(bucket))
             req == [api |-> "ListBuckets", S3Options |-> all]
         IN  IF ~resp.ok
             THEN BucketResult(NilPtr,
                      Errorf_w("simplestorage: can't list snapshots for bucket",
                               s3_Transport),
                      <<req>>, s, Len(opts))
             ELSE BucketResult(
                      Ptr([Bucket |-> bucket,
                           Snapshots |-> ListBucketSnapshots_snapshots(bucket,
                                                                       resp.Buckets)]),
                      NoErr, <<req>>, s, Len(opts))

\* A ForkBucket that reports the first snapshot version given.
ForkBucket_info_firstVersion(source, target, o, opts) ==
    [ZeroBucketInfo EXCEPT
        !.Name = target, !.Created = Now, !.SourceBucket = source,
        !.SourceSnapshot = BucketOptions_apply_first(BucketOptions_defaults,
                               SelectSeq(opts, LAMBDA d : d.fn = "WithSnapshotVersion")
                           ).SnapshotVersion]
ForkBucket_info(source, target, o, opts) ==
    [ZeroBucketInfo EXCEPT
        !.Name = target, !.Created = Now, !.SourceBucket = source,
        !.SourceSnapshot = o.SnapshotVersion, !.SnapshotsEnabled = FALSE]

\* The checks ForkBucket starts with, in the order of the code; "" when the
\* names pass.
ForkBucket_validate_targetFirst(source, target) ==
    IF target = "" THEN MsgTargetRequired
    ELSE IF source = "" THEN MsgSourceRequired
    ELSE ""
ForkBucket_validate(source, target) ==
    IF source = "" THEN MsgSourceRequired
    ELSE IF target = "" THEN MsgTargetRequired
    ELSE ""

ForkBucket(s, source, target, opts, fail) ==
    IF ForkBucket_validate(source, target) # ""
    THEN BucketResult(NilPtr, errors_New(ForkBucket_validate(source, target)),
                      <<>>, s, 0)
    ELSE LET o0 == BucketOptions_apply(BucketOptions_defaults, opts)
             o == [o0 EXCEPT !.S3Options =
                      Append(o0.S3Options, tigrisheaders_WithForkSourceBucket(source))]
             req == CreateBucketRequest(target, o.S3Options)
             out == s3_CreateBucket(s, target, o.S3Options, fail = 1)
         IN  IF out.err # NoErr
             THEN BucketResult(NilPtr,
                               Errorf_w("simplestorage: can't fork bucket", out.err),
                               <<Answered(req, out.err)>>, out.svc, Len(opts))
             ELSE BucketResult(Ptr(ForkBucket_info(source, target, o, opts)),
                               NoErr, <<Answered(req, out.err)>>, out.svc, Len(opts))

(***************************************************************************)
(* Inputs.                                                                 *)
(***************************************************************************)
Envs ==
    [TIGRIS_STORAGE_BUCKET : {"", "env-bucket"},
     TIGRIS_STORAGE_ACCESS_KEY_ID : {"", "env-key"},
     TIGRIS_STORAGE_SECRET_ACCESS_KEY : {"", "env-secret"}]

EnvUnset ==
    [TIGRIS_STORAGE_BUCKET |-> "",
     TIGRIS_STORAGE_ACCESS_KEY_ID |-> "",
     TIGRIS_STORAGE_SECRET_ACCESS_KEY |-> ""]

EnvSet ==
    [TIGRIS_STORAGE_BUCKET |-> "env-bucket",
     TIGRIS_STORAGE_ACCESS_KEY_ID |-> "env-key",
     TIGRIS_STORAGE_SECRET_ACCESS_KEY |-> "env-secret"]

StorageOptionSet ==
    {Opt("WithFlyEndpoint", "", ""), Opt("WithGlobalEndpoint", "", ""),
     Opt("WithEndpoint", "https://test.endpoint.dev", ""),
     Opt("WithRegion", "test-region", ""), OptB("WithPathStyle", TRUE),
     Opt("WithAccessKeypair", "test-key-id", "test-secret")}

OptionSet ==
    StorageOptionSet \cup
    {Opt("WithBucket", "b1", ""), Opt("WithBucket", "", ""),
     Opt("WithAccessKeypair", "", "")}

Decorators == {WithHeader("X-Custom", "1"), WithHeader("X-Tigris-CAS", "true")}

ClientOptionSet ==
    {Opt("OverrideBucket", "b2", ""), Opt("OverrideBucket", "", ""),
     Opt("WithStartAfter", "k1", ""), OptN("WithMaxKeys", 1),
     Opt("WithDelimiter", "/", ""), Opt("WithPrefix", "k", ""),
     Opt("WithPaginationToken", "t1", ""),
     Opt("WithContentType", "text/plain", ""), Opt("WithContentType", "", ""),
     Opt("WithContentDisposition", "inline", "")}
    \cup {OptD("WithS3Options", <<d>>) : d \in Decorators}

BucketOptionSet ==
    {Opt("WithEnableSnapshot", "", ""),
     Opt("WithSnapshotVersion", "v1", ""), Opt("WithSnapshotVersion", "v2", ""),
     Opt("WithBucketRegion", "fra", ""),
     OptN("WithListLimit", 1), OptN("WithListLimit", 2),
     Opt("WithListToken", "t1", "")}

ZeroObject ==
    [Bucket |-> "", Key |-> "", ContentType |-> "", ContentDisposition |-> "",
     Etag |-> "", Version |-> "", Size |-> 0, LastModified |-> "", Metadata |-> {},
     Body |-> NilPtr]

Idle == [op |-> "none"]

\* The bucket names the backing service knows, none of them taken.
SvcBuckets == {"b1", "b2"}
NoBuckets == [b \in SvcBuckets |-> NilPtr]

(***************************************************************************)
(* SpecNew: client construction.                                           *)
(***************************************************************************)
InitNew ==
    /\ env \in Envs
    /\ client = NilPtr
    /\ store = <<>>
    /\ svc = <<>>
    /\ obj = ZeroObject
    /\ inflight = <<>>
    /\ calls = <<>>
    /\ last = Idle

\* New is the first call of a program.
NewAct ==
    /\ last = Idle
    /\ \E options \in SeqsUpTo(OptionSet, MaxNewOpts), cfgOK \in BOOLEAN :
          LET r == New(env, options, cfgOK)
          IN  /\ client' = r.client
              /\ calls' = r.calls
              /\ last' = [op |-> "New", options |-> options, cfgOK |-> cfgOK,
                          client |-> r.client, err |-> r.err]
              /\ UNCHANGED <<env, store, svc, obj, inflight>>

NextNew == NewAct

SpecNew == InitNew /\ [][NextNew]_vars

(***************************************************************************)
(* A client built by New, as the facade specifications start with.         *)
(***************************************************************************)
InitClient ==
    /\ \E e \in {EnvUnset, EnvSet}, options \in {<<>>, <<Opt("WithBucket", "b1", "")>>} :
          /\ New(e, options, TRUE).err = NoErr
          /\ env = e
          /\ client = New(e, options, TRUE).client
    /\ obj = ZeroObject
    /\ inflight = <<>>
    /\ calls = <<>>
    /\ last = Idle

(***************************************************************************)
(* SpecPresign: presigned URLs.                                            *)
(***************************************************************************)
Methods == {"GET", "PUT", "DELETE", "get", "Put", "PATCH", "POST", ""}
Keys == {"", "k1"}
Expiries == {-1, 0, 1, 3600}

PresignOptionSet ==
    {Opt("OverrideBucket", "b2", ""),
     Opt("WithContentType", "text/plain", ""),
     Opt("WithContentType", "", ""),
     Opt("WithContentDisposition", "inline", ""),
     Opt("WithPrefix", "k", "")}

InitPresign ==
    /\ InitClient
    /\ store = <<>>
    /\ svc = <<>>

PresignURLAct ==
    /\ last = Idle
    /\ \E method \in Methods, key \in Keys, expiry \in Expiries,
          opts \in SeqsUpTo(PresignOptionSet, MaxCallOpts), sdkOK \in BOOLEAN :
          LET r == PresignURL(client[1], method, key, expiry, opts, sdkOK)
          IN  /\ calls' = r.calls
              /\ last' = [op |-> "PresignURL", method |-> method, key |-> key,
                          expiry |-> expiry, opts |-> opts, sdkOK |-> sdkOK,
                          url |-> r.url, err |-> r.err,
                          applied |-> r.applied, presigners |-> r.presigners]
              /\ UNCHANGED <<env, client, store, svc, obj, inflight>>

NextPresign == PresignURLAct

SpecPresign == InitPresign /\ [][NextPresign]_vars

(***************************************************************************)
(* SpecPut: storing an object and reading it back.                         *)
(***************************************************************************)
BucketNames == {"env-bucket", "b1", "b2"}
ObjKeys == {"k1"}

EmptyStore == [slot \in BucketNames \X ObjKeys |-> NilPtr]

\* An object another writer stored with all its metadata.
ForeignObject ==
    [ContentType |-> Ptr("image/png"), ContentDisposition |-> Ptr("inline"),
     ContentLength |-> Ptr(3), Metadata |-> {<<"owner", "other">>},
     ETag |-> Ptr("e0"), VersionId |-> NilPtr, LastModified |-> Ptr("t0"),
     Body |-> "png"]

\* The records a caller hands to Put: new ones, and ones that still carry
\* the bucket, etag and version of an earlier use.
PutObjects ==
    {[ZeroObject EXCEPT !.Key = "k1", !.Body = Ptr("hello"),
                        !.ContentType = ct, !.Size = size,
                        !.ContentDisposition = md[1], !.Metadata = md[2],
                        !.Bucket = used[1], !.Etag = used[2], !.Version = used[3]] :
        ct \in {"", "text/plain"}, size \in {0, 5},
        md \in {<<"", {}>>, <<"attachment", {<<"x", "y">>}>>},
        used \in {<<"", "", "">>, <<"b9", "e9", "v9">>}}

PutOptionSet ==
    {Opt("OverrideBucket", "b2", ""), OptD("WithS3Options", <<WithHeader("X-Custom", "1")>>)}

ReadOptionSet == {Opt("OverrideBucket", "b2", "")}

\* What the SDK may answer to PutObject.
PutOutputs ==
    {[ok |-> FALSE, ETag |-> NilPtr, VersionId |-> NilPtr],
     [ok |-> TRUE, ETag |-> NilPtr, VersionId |-> NilPtr],
     [ok |-> TRUE, ETag |-> Ptr("e1"), VersionId |-> Ptr("v1")]}

InitPut ==
    /\ InitClient
    /\ store \in {EmptyStore,
                  [EmptyStore EXCEPT ![<<"b1", "k1">>] = Ptr(ForeignObject)]}
    /\ svc = NoBuckets

PutAct ==
    /\ last = Idle
    /\ \E r \in PutObjects, opts \in SeqsUpTo(PutOptionSet, MaxCallOpts),
          resp \in PutOutputs :
          LET p == Put(client[1], r, opts, resp)
          IN  /\ obj' = p.obj
              /\ store' = IF resp.ok
                          THEN [store EXCEPT ![<<p.bucket, r.Key>>] =
                                                Ptr(Stored(p.calls[1], resp))]
                          ELSE store
              /\ calls' = p.calls
              /\ last' = [op |-> "Put", in |-> r, opts |-> opts, resp |-> resp,
                          ret |-> p.ret, err |-> p.err, bucket |-> p.bucket]
              /\ UNCHANGED <<env, client, svc, inflight>>

\* put: the record of the Put this read follows, if it follows one.
ReadResult(op, key, opts, r) ==
    [op |-> op, key |-> key, opts |-> opts, ret |-> r.ret, err |-> r.err,
     put |-> IF last.op = "Put" /\ last.err = NoErr THEN Ptr(last.in) ELSE NilPtr]

HeadAct ==
    /\ last.op \in {"none", "Put"}
    /\ \E key \in ObjKeys, opts \in SeqsUpTo(ReadOptionSet, MaxCallOpts),
          transportOK \in BOOLEAN :
          LET r == Head_(client[1], key, opts, store, transportOK)
          IN  /\ calls' = r.calls
              /\ last' = ReadResult("Head", key, opts, r)
              /\ UNCHANGED <<env, client, store, svc, obj, inflight>>

GetAct ==
    /\ last.op \in {"none", "Put"}
    /\ \E key \in ObjKeys, opts \in SeqsUpTo(ReadOptionSet, MaxCallOpts),
          transportOK \in BOOLEAN :
          LET r == Get(client[1], key, opts, store, transportOK)
          IN  /\ calls' = r.calls
              /\ last' = ReadResult("Get", key, opts, r)
              /\ UNCHANGED <<env, client, store, svc, obj, inflight>>

NextPut ==
    \/ PutAct
    \/ HeadAct
    \/ GetAct

SpecPut == InitPut /\ [][NextPut]_vars

(***************************************************************************)
(* SpecList: one page of objects, one page of buckets.                     *)
(***************************************************************************)
ListOptionSet ==
    {Opt("OverrideBucket", "b2", ""), Opt("WithPaginationToken", "t1", ""),
     OptN("WithMaxKeys", 1), Opt("WithPrefix", "k", "")}

ListBucketsOptionSet ==
    {OptN("WithListLimit", 1), Opt("WithListToken", "t1", "")}

\* Entries of a ListObjectsV2 page: all fields set, or none.
ContentsEntries ==
    {[Key |-> Ptr("k1"), ETag |-> Ptr("e1"), Size |-> Ptr(5), LastModified |-> Ptr("t1")],
     [Key |-> NilPtr, ETag |-> NilPtr, Size |-> NilPtr, LastModified |-> NilPtr]}

\* Entries of a ListBuckets page.
BucketEntries ==
    {[Name |-> Ptr("b1"), CreationDate |-> Ptr("t1")],
     [Name |-> Ptr("b2"), CreationDate |-> NilPtr]}

\* Every answer of the SDK to ListObjectsV2: the truncation flag and the
\* token are separate optional fields of the output.
ListObjectsV2Outputs ==
    {[ok |-> FALSE, Contents |-> <<>>, IsTruncated |-> NilPtr,
      NextContinuationToken |-> NilPtr]}
    \cup [ok : {TRUE},
          Contents : SeqsUpTo(ContentsEntries, MaxPage),
          IsTruncated : {NilPtr, Ptr(FALSE), Ptr(TRUE)},
          NextContinuationToken : {NilPtr, Ptr(""), Ptr("t2")}]

\* Every answer of the SDK to ListBuckets.
ListBucketsOutputs ==
    {[ok |-> FALSE, Buckets |-> <<>>, ContinuationToken |-> NilPtr]}
    \cup [ok : {TRUE},
          Buckets : SeqsUpTo(BucketEntries, MaxPage),
          ContinuationToken : {NilPtr, Ptr(""), Ptr("t2")}]

InitList ==
    /\ InitClient
    /\ store = EmptyStore
    /\ svc = NoBuckets

ListAct ==
    /\ last = Idle
    /\ \E opts \in SeqsUpTo(ListOptionSet, MaxCallOpts), resp \in ListObjectsV2Outputs :
          LET r == List(client[1], opts, resp)
          IN  /\ calls' = r.calls
              /\ last' = [op |-> "List", opts |-> opts, resp |-> resp,
                          ret |-> r.ret, err |-> r.err]
              /\ UNCHANGED <<env, client, store, svc, obj, inflight>>

ListBucketsAct ==
    /\ last = Idle
    /\ \E opts \in SeqsUpTo(ListBucketsOptionSet, MaxCallOpts),
          resp \in ListBucketsOutputs :
          LET r == ListBuckets(opts, resp)
          IN  /\ calls' = r.calls
              /\ last' = [op |-> "ListBuckets", opts |-> opts, resp |-> resp,
                          ret |-> r.ret, err |-> r.err]
              /\ UNCHANGED <<env, client, store, svc, obj, inflight>>

NextList ==
    \/ ListAct
    \/ ListBucketsAct

SpecList == InitList /\ [][NextList]_vars

(***************************************************************************)
(* SpecBucket: one bucket management call against the service's buckets.   *)
(***************************************************************************)
BucketArgs == {""} \cup SvcBuckets
Descriptions == {"", "nightly", "pre release"}

\* The keys of a bucket holding n objects, in key order.
BucketKeys(n) == [i \in 1..n |-> "k" \o ToString(i)]

\* Every bucket is absent, or holds up to MaxObjects objects.
SvcStates ==
    [SvcBuckets -> {NilPtr} \cup {Ptr(BucketKeys(n)) : n \in 0..MaxObjects}]

\* A forced DeleteBucket makes at most one list call, one delete per listed
\* key and one delete-bucket call.
FailPositions == 0..(ServicePageSize + 2)

BucketCallOptionSet ==
    {Opt("WithForceDelete", "", ""), Opt("WithEnableSnapshot", "", ""),
     Opt("WithSnapshotVersion", "v1", ""), Opt("WithSnapshotVersion", "v2", ""),
     Opt("WithBucketRegion", "fra", "")}

\* Every answer to HeadBucket: a service or transport error, a raw response
\* of an unexpected type, or a response with its Tigris headers.
HeadBucketOutputs ==
    [err : {s3_NoSuchBucket, s3_AccessDenied, s3_Transport}, rawOK : {TRUE},
     header : {[EnableSnapshot |-> "", ForkSourceBucket |-> "",
                ForkSourceBucketSnapshot |-> "", IsForkParent |-> ""]}]
    \cup [err : {NoErr}, rawOK : {FALSE},
          header : {[EnableSnapshot |-> "true", ForkSourceBucket |-> "b1",
                     ForkSourceBucketSnapshot |-> "v1", IsForkParent |-> "true"]}]
    \cup [err : {NoErr}, rawOK : {TRUE},
          header : [EnableSnapshot : {"", "true", "false"},
                    ForkSourceBucket : {"", "b1"},
                    ForkSourceBucketSnapshot : {"", "v1"},
                    IsForkParent : {"", "true"}]]

InitBucket ==
    /\ env = EnvSet
    /\ client = New(EnvSet, <<>>, TRUE).client
    /\ obj = ZeroObject
    /\ inflight = <<>>
    /\ calls = <<>>
    /\ last = Idle
    /\ store = EmptyStore
    /\ svc \in SvcStates

\* What every bucket action records of its call.
BucketCall(op, args, opts, r) ==
    [op |-> op, args |-> args, opts |-> opts, before |-> svc,
     ret |-> r.ret, err |-> r.err, applied |-> r.applied]

BucketDone(op, args, opts, r) ==
    /\ svc' = r.svc
    /\ calls' = r.calls
    /\ last' = BucketCall(op, args, opts, r)
    /\ UNCHANGED <<env, client, store, obj, inflight>>

CreateBucketAct ==
    /\ last = Idle
    /\ \E bucket \in BucketArgs, opts \in SeqsUpTo(BucketCallOptionSet, MaxCallOpts),
          fail \in 0..1 :
          BucketDone("CreateBucket", [bucket |-> bucket, fail |-> fail], opts,
                     CreateBucket(svc, bucket, opts, fail))

DeleteBucketAct ==
    /\ last = Idle
    /\ \E bucket \in BucketArgs, opts \in SeqsUpTo(BucketCallOptionSet, MaxCallOpts),
          fail \in FailPositions :
          BucketDone("DeleteBucket", [bucket |-> bucket, fail |-> fail], opts,
                     DeleteBucket(svc, bucket, opts, fail))

GetBucketInfoAct ==
    /\ last = Idle
    /\ \E bucket \in BucketArgs, opts \in SeqsUpTo(BucketCallOptionSet, MaxCallOpts),
          resp \in HeadBucketOutputs :
          BucketDone("GetBucketInfo", [bucket |-> bucket, resp |-> resp], opts,
                     GetBucketInfo(svc, bucket, opts, resp))

CreateBucketSnapshotAct ==
    /\ last = Idle
    /\ \E bucket \in BucketArgs, description \in Descriptions,
          opts \in SeqsUpTo(BucketCallOptionSet, MaxCallOpts), fail \in 0..1 :
          BucketDone("CreateBucketSnapshot",
                     [bucket |-> bucket, description |-> description, fail |-> fail],
                     opts, CreateBucketSnapshot(svc, bucket, description, opts, fail))

ListBucketSnapshotsAct ==
    /\ last = Idle
    /\ \E bucket \in BucketArgs, opts \in SeqsUpTo(BucketCallOptionSet, MaxCallOpts),
          resp \in ListBucketsOutputs :
          BucketDone("ListBucketSnapshots", [bucket |-> bucket, resp |-> resp], opts,
                     ListBucketSnapshots(svc, bucket, opts, resp))

ForkBucketAct ==
    /\ last = Idle
    /\ \E source \in BucketArgs, target \in BucketArgs,
          opts \in SeqsUpTo(BucketCallOptionSet, MaxCallOpts), fail \in 0..1 :
          BucketDone("ForkBucket",
                     [source |-> source, target |-> target, fail |-> fail], opts,
                     ForkBucket(svc, source, target, opts, fail))

NextBucket ==
    \/ CreateBucketAct
    \/ DeleteBucketAct
    \/ GetBucketInfoAct
    \/ CreateBucketSnapshotAct
    \/ ListBucketSnapshotsAct
    \/ ForkBucketAct

SpecBucket == InitBucket /\ [][NextBucket]_vars

(***************************************************************************)
(* SpecCalls: facade calls made concurrently on one client. A call runs    *)
(* in steps that other calls interleave with: it copies the client's       *)
(* options into its own ClientOptions, runs its option functions one by    *)
(* one on that copy, then hands its request to the SDK.                    *)
(***************************************************************************)
CallIds == 1..MaxCalls
CallKinds == {"List", "PresignPut"}
CallKey == "k1"
CallExpiry == 3600

\* The options a call of each kind is given: the ones its request shows.
CallOptionSet(kind) ==
    IF kind = "List"
    THEN {Opt("OverrideBucket", "b2", ""), Opt("WithPrefix", "k", ""),
          OptD("WithS3Options", <<WithHeader("X-Custom", "1")>>)}
    ELSE {Opt("OverrideBucket", "b2", ""), Opt("WithContentType", "text/plain", "")}

\* The option lists of a call: up to MaxCallOpts different options, in any
\* order.
CallOptionLists(kind) ==
    {opts \in SeqsUpTo(CallOptionSet(kind), MaxCallOpts) :
        \A i, j \in DOMAIN opts : i # j => opts[i] # opts[j]}

IdleFrame ==
    [pc |-> "idle", kind |-> "", opts |-> <<>>, i |-> 0, o |-> NilPtr, req |-> NilPtr]

\* doer(&o): the option function works on the call's own ClientOptions.
\* Call_applyOption_shared also writes the bucket into the client.
Call_applyOption_shared(c, o, opt) ==
    [client |-> [c EXCEPT !.options.BucketName =
                    ClientOption_call(opt, o).BucketName],
     o |-> ClientOption_call(opt, o)]
Call_applyOption(c, o, opt) == [client |-> c, o |-> ClientOption_call(opt, o)]

\* The input a call hands to the SDK, built from its resolved options.
Call_request(kind, o) ==
    CASE kind = "List" ->
            [api |-> "ListObjectsV2", Bucket |-> Ptr(o.BucketName),
             Delimiter |-> o.Delimiter, Prefix |-> o.Prefix, MaxKeys |-> o.MaxKeys,
             ContinuationToken |-> o.PaginationToken, StartAfter |-> o.StartAfter,
             S3Options |-> o.S3Options]
      [] kind = "PresignPut" -> presignURLPut(o.BucketName, CallKey, CallExpiry, o)

InitCalls ==
    /\ env = EnvSet
    /\ client = New(EnvSet, <<>>, TRUE).client
    /\ store = EmptyStore
    /\ svc = NoBuckets
    /\ obj = ZeroObject
    /\ inflight = [id \in CallIds |-> IdleFrame]
    /\ calls = <<>>
    /\ last = [op |-> "calls", base |-> client]

\* o := new(ClientOptions).defaults(c.options)
CallBegin(id) ==
    /\ inflight[id].pc = "idle"
    /\ \E kind \in CallKinds :
       \E opts \in CallOptionLists(kind) :
          inflight' = [inflight EXCEPT ![id] =
                          [pc |-> "apply", kind |-> kind, opts |-> opts, i |-> 1,
                           o |-> Ptr(ClientOptions_defaults(client[1].options)),
                           req |-> NilPtr]]
    /\ UNCHANGED <<env, client, store, svc, obj, calls, last>>

\* One turn of: for _, doer := range opts { doer(&o) }
CallApply(id) ==
    /\ inflight[id].pc = "apply"
    /\ inflight[id].i <= Len(inflight[id].opts)
    /\ LET f == inflight[id]
           r == Call_applyOption(client[1], f.o[1], f.opts[f.i])
       IN  /\ inflight' = [inflight EXCEPT ![id].o = Ptr(r.o), ![id].i = f.i + 1]
           /\ client' = Ptr(r.client)
    /\ UNCHANGED <<env, store, svc, obj, calls, last>>

\* The SDK call, after the last option function.
CallSend(id) ==
    /\ inflight[id].pc = "apply"
    /\ inflight[id].i > Len(inflight[id].opts)
    /\ LET f == inflight[id]
           req == Call_request(f.kind, f.o[1])
       IN  /\ inflight' = [inflight EXCEPT ![id].pc = "done", ![id].req = Ptr(req)]
           /\ calls' = Append(calls, [id |-> id, req |-> req])
    /\ UNCHANGED <<env, client, store, svc, obj, last>>

NextCalls ==
    \E id \in CallIds :
        \/ CallBegin(id)
        \/ CallApply(id)
        \/ CallSend(id)

SpecCalls == InitCalls /\ [][NextCalls]_vars

(***************************************************************************)
(* SpecObject: a client built by New, possibly a client derived from it    *)
(* with For, and one object call on the client in use.                     *)
(***************************************************************************)
ForBuckets == {"", "b1", "b2"}

ObjectOptionSet ==
    {Opt("OverrideBucket", "b2", ""), Opt("OverrideBucket", "", ""),
     OptD("WithS3Options", <<WithHeader("X-Custom", "1")>>)}

\* What the SDK may answer to ListObjectsV2 here: a failure, or one page.
ObjectListOutputs ==
    {[ok |-> FALSE, Contents |-> <<>>, IsTruncated |-> NilPtr,
      NextContinuationToken |-> NilPtr],
     [ok |-> TRUE,
      Contents |-> <<[Key |-> Ptr("k1"), ETag |-> Ptr("e1"), Size |-> Ptr(5),
                      LastModified |-> Ptr("t1")]>>,
      IsTruncated |-> Ptr(FALSE), NextContinuationToken |-> NilPtr]}

InitObject ==
    /\ InitClient
    /\ store \in {EmptyStore,
                  [EmptyStore EXCEPT ![<<"b1", "k1">>] = Ptr(ForeignObject)]}
    /\ svc = NoBuckets

\* The record of an object call, with derived added: whether the client in
\* use came from For.
ObjectCall(rec) ==
    [f \in DOMAIN rec \cup {"derived"} |->
        IF f = "derived" THEN last.op = "For" ELSE rec[f]]

\* The service has no bucket with an empty name: a call that names it fails.
ServiceAnswers(req, ok) == ok => req.Bucket[1] \in BucketNames

ForAct ==
    /\ last = Idle
    /\ \E bucket \in ForBuckets :
          LET r == For(client[1], bucket)
          IN  /\ client' = Ptr(r.ret)
              /\ calls' = r.calls
              /\ last' = [op |-> "For", bucket |-> bucket, receiver |-> client[1],
                          after |-> r.receiver, fresh |-> r.fresh, ret |-> r.ret]
              /\ UNCHANGED <<env, store, svc, obj, inflight>>

ObjectGetAct ==
    /\ last.op \in {"none", "For"}
    /\ \E key \in ObjKeys, opts \in SeqsUpTo(ObjectOptionSet, MaxCallOpts),
          transportOK \in BOOLEAN :
          LET r == Get(client[1], key, opts, store, transportOK)
          IN  /\ calls' = r.calls
              /\ last' = ObjectCall(ReadResult("Get", key, opts, r))
              /\ UNCHANGED <<env, client, store, svc, obj, inflight>>

ObjectHeadAct ==
    /\ last.op \in {"none", "For"}
    /\ \E key \in ObjKeys, opts \in SeqsUpTo(ObjectOptionSet, MaxCallOpts),
          transportOK \in BOOLEAN :
          LET r == Head_(client[1], key, opts, store, transportOK)
          IN  /\ calls' = r.calls
              /\ last' = ObjectCall(ReadResult("Head", key, opts, r))
              /\ UNCHANGED <<env, client, store, svc, obj, inflight>>

ObjectPutAct ==
    /\ last.op \in {"none", "For"}
    /\ \E opts \in SeqsUpTo(ObjectOptionSet, MaxCallOpts), resp \in PutOutputs :
          LET in == [ZeroObject EXCEPT !.Key = "k1", !.Body = Ptr("hello"),
                                       !.ContentType = "text/plain", !.Size = 5]
              p == Put(client[1], in, opts, resp)
          IN  /\ ServiceAnswers(p.calls[1], resp.ok)
              /\ obj' = p.obj
              /\ store' = IF resp.ok
                          THEN [store EXCEPT ![<<p.bucket, in.Key>>] =
                                                Ptr(Stored(p.calls[1], resp))]
                          ELSE store
              /\ calls' = p.calls
              /\ last' = ObjectCall([op |-> "Put", in |-> in, opts |-> opts,
                                      resp |-> resp, ret |-> p.ret, err |-> p.err,
                                      bucket |-> p.bucket])
              /\ UNCHANGED <<env, client, svc, inflight>>

ObjectDeleteAct ==
    /\ last.op \in {"none", "For"}
    /\ \E key \in ObjKeys, opts \in SeqsUpTo(ObjectOptionSet, MaxCallOpts),
          ok \in BOOLEAN :
          LET r == Delete(client[1], key, opts, ok)
          IN  /\ ServiceAnswers(r.calls[1], ok)
              /\ store' = IF ok THEN [store EXCEPT ![<<r.bucket, key>>] = NilPtr]
                          ELSE store
              /\ calls' = r.calls
              /\ last' = ObjectCall([op |-> "Delete", key |-> key, opts |-> opts,
                                      err |-> r.err])
              /\ UNCHANGED <<env, client, svc, obj, inflight>>

ObjectListAct ==
    /\ last.op \in {"none", "For"}
    /\ \E opts \in SeqsUpTo(ObjectOptionSet, MaxCallOpts), resp \in ObjectListOutputs :
          LET r == List(client[1], opts, resp)
          IN  /\ ServiceAnswers(r.calls[1], resp.ok)
              /\ calls' = r.calls
              /\ last' = ObjectCall([op |-> "List", opts |-> opts, resp |-> resp,
                                      ret |-> r.ret, err |-> r.err])
              /\ UNCHANGED <<env, client, store, svc, obj, inflight>>

ObjectPresignAct ==
    /\ last.op \in {"none", "For"}
    /\ \E method \in {MethodGet, MethodPut, MethodDelete}, key \in Keys,
          opts \in SeqsUpTo(ObjectOptionSet, MaxCallOpts), sdkOK \in BOOLEAN :
          LET r == PresignURL(client[1], method, key, CallExpiry, opts, sdkOK)
          IN  /\ calls' = r.calls
              /\ last' = ObjectCall([op |-> "PresignURL", method |-> method,
                                      key |-> key, expiry |-> CallExpiry,
                                      opts |-> opts, sdkOK |-> sdkOK,
                                      url |-> r.url, err |-> r.err,
                                      applied |-> r.applied,
                                      presigners |-> r.presigners])
              /\ UNCHANGED <<env, client, store, svc, obj, inflight>>

NextObject ==
    \/ ForAct
    \/ ObjectGetAct
    \/ ObjectHeadAct
    \/ ObjectPutAct
    \/ ObjectDeleteAct
    \/ ObjectListAct
    \/ ObjectPresignAct

SpecObject == InitObject /\ [][NextObject]_vars

(***************************************************************************)
(* SpecHead: one HeadBucketForkOrSnapshot call on the storage client.      *)
(***************************************************************************)
\* What HeadBucket may answer: an error, a response whose raw form is not
\* an *http.Response, or a response with any of these header values (""
\* standing for an absent header).
RawHeadOutputs ==
    [err : {s3_NoSuchBucket, s3_AccessDenied, s3_Transport}, rawOK : {TRUE},
     header : {[EnableSnapshot |-> "", ForkSourceBucket |-> "",
                ForkSourceBucketSnapshot |-> "", IsForkParent |-> ""]}]
    \cup [err : {NoErr}, rawOK : {FALSE},
          header : {[EnableSnapshot |-> "true", ForkSourceBucket |-> "b1",
                     ForkSourceBucketSnapshot |-> "v1", IsForkParent |-> "true"]}]
    \cup [err : {NoErr}, rawOK : {TRUE},
          header : [EnableSnapshot : {"", "true", "false", "TRUE"},
                    ForkSourceBucket : {"", "b1"},
                    ForkSourceBucketSnapshot : {"", "v1"},
                    IsForkParent : {"", "true", "True", "1"}]]

InitHead == InitBucket

HeadBucketForkOrSnapshotAct ==
    /\ last = Idle
    /\ \E bucket \in SvcBuckets, opts \in SeqsUpTo(Decorators, MaxCallOpts),
          resp \in RawHeadOutputs :
          LET r == storage_HeadBucketForkOrSnapshot_call([Bucket |-> Ptr(bucket)],
                                                         opts, resp)
          IN  /\ calls' = r.calls
              /\ last' = [op |-> "HeadBucketForkOrSnapshot", bucket |-> bucket,
                          opts |-> opts, resp |-> resp, out |-> r.out, err |-> r.err]
              /\ UNCHANGED <<env, client, store, svc, obj, inflight>>

NextHead == HeadBucketForkOrSnapshotAct

SpecHead == InitHead /\ [][NextHead]_vars

(***************************************************************************)
(* SpecPages: a caller lists a bucket page by page, feeding each returned  *)
(* NextToken to the next call while HasMore is true. Nothing else touches  *)
(* the bucket.                                                             *)
(***************************************************************************)
PagedBucket == "b1"

Min(a, b) == IF a < b THEN a ELSE b

\* The service's answer to a ListObjectsV2 request for a bucket it holds:
\* the keys after the one the continuation token names, at most MaxKeys and
\* at most a service page of them, in key order; the token of a truncated
\* page names its last key.
s3_ListObjectsV2_page(s, req) ==
    IF req.Bucket[1] \notin DOMAIN s \/ s[req.Bucket[1]] = NilPtr
    THEN [ok |-> FALSE, Contents |-> <<>>, IsTruncated |-> NilPtr,
          NextContinuationToken |-> NilPtr]
    ELSE
    LET keys == s[req.Bucket[1]][1]
        start == IF req.ContinuationToken = NilPtr THEN 0
                 ELSE CHOOSE i \in DOMAIN keys : keys[i] = req.ContinuationToken[1]
        size == Min(ServicePageSize, lower(req.MaxKeys, ServicePageSize))
        end == Min(Len(keys), start + size)
    IN  [ok |-> TRUE,
         Contents |-> [i \in 1..(end - start) |->
                          [Key |-> Ptr(keys[start + i]), ETag |-> Ptr("e1"),
                           Size |-> Ptr(5), LastModified |-> Ptr("t1")]],
         IsTruncated |-> Ptr(end < Len(keys)),
         NextContinuationToken |-> IF end < Len(keys) THEN Ptr(keys[end]) ELSE NilPtr]

\* The options the caller gives to every call of one listing.
PageOptionLists == {<<>>} \cup {<<OptN("WithMaxKeys", n)>> : n \in 1..MaxPage}

InitPages ==
    /\ env = EnvSet
    /\ client = New(EnvSet, <<Opt("WithBucket", PagedBucket, "")>>, TRUE).client
    /\ obj = ZeroObject
    /\ inflight = <<>>
    /\ calls = <<>>
    /\ last = Idle
    /\ store = EmptyStore
    /\ svc \in {s \in SvcStates : s[PagedBucket] # NilPtr}

\* One List call of the listing: the page is appended to what the caller
\* has collected; a failed call ends the listing.
ListPage(opts, sofar, pages) ==
    \* the request List builds does not depend on the answer
    \E req \in {List(client[1], opts, [ok |-> FALSE]).calls[1]} :
    \E resp \in {s3_ListObjectsV2_page(svc, req)} :
    \E r \in {List(client[1], opts, resp)} :
        /\ calls' = r.calls
        /\ last' = IF r.err # NoErr
                    THEN [op |-> "ListPages", opts |-> last.opts, items |-> sofar,
                          next |-> "", more |-> FALSE, pages |-> pages + 1,
                          err |-> r.err]
                    ELSE [op |-> "ListPages", opts |-> last.opts,
                          items |-> sofar \o [i \in DOMAIN r.ret[1].Items |->
                                                 r.ret[1].Items[i].Key],
                          next |-> r.ret[1].NextToken,
                          more |-> r.ret[1].HasMore,
                          pages |-> pages + 1,
                          err |-> NoErr]
        /\ UNCHANGED <<env, client, store, svc, obj, inflight>>

ListBeginAct ==
    /\ last = Idle
    /\ \E opts \in PageOptionLists :
          /\ last' = [op |-> "ListOptions", opts |-> opts]
          /\ UNCHANGED <<env, client, store, svc, obj, inflight, calls>>

ListFirstAct ==
    /\ last.op = "ListOptions"
    /\ ListPage(last.opts, <<>>, 0)

\* A listing of a bucket of MaxObjects keys takes at most MaxObjects calls.
ListNextAct ==
    /\ last.op = "ListPages"
    /\ last.more
    /\ last.pages <= MaxObjects
    /\ ListPage(Append(last.opts, Opt("WithPaginationToken", last.next, "")),
                last.items, last.pages)

NextPages ==
    \/ ListBeginAct
    \/ ListFirstAct
    \/ ListNextAct

\* The caller keeps calling while HasMore is true.
SpecPages == InitPages /\ [][NextPages]_vars /\ WF_vars(NextPages)

(***************************************************************************)
(* SpecHeaders: tigrisheaders helpers applied, one after another, to an    *)
(* s3.Options value.                                                       *)
(***************************************************************************)
Helpers ==
    {WithHeader("X-Custom", "1"),
     tigrisheaders_WithQuery("WHERE key = 'value'"),
     tigrisheaders_WithStaticReplicationRegions(strings_Join(<<>>, ",")),
     tigrisheaders_WithStaticReplicationRegions(strings_Join(<<"fra", "gru">>, ",")),
     tigrisheaders_WithCreateObjectIfNotExists,
     tigrisheaders_WithIfEtagMatches("e1"),
     tigrisheaders_WithModifiedSince("2023-01-15T08:30:00Z"),
     tigrisheaders_WithUnmodifiedSince("2023-01-15T08:30:00Z"),
     tigrisheaders_WithCompareAndSwap,
     tigrisheaders_WithEnableSnapshot,
     tigrisheaders_WithTakeSnapshot("pre release"),
     tigrisheaders_WithSnapshotVersion("v1"),
     tigrisheaders_WithRename}

\* The s3.Options values the helpers start from: a fresh one, and one that
\* already holds an API option of the SDK.
StartOptions ==
    {[APIOptions |-> <<>>],
     [APIOptions |-> <<[mw |-> "sdk", key |-> "", value |-> ""]>>]}

InitHeaders ==
    /\ InitBucket
    /\ svc = NoBuckets

\* What applying the helper d to the options value before leaves behind.
HelperApplied(d, start, before, k) ==
    /\ last' = [op |-> "ApplyHelper", helper |-> d, start |-> start,
                before |-> before, options |-> s3_Options_run(before, d), k |-> k]
    /\ UNCHANGED <<env, client, store, svc, obj, inflight, calls>>

ApplyFirstHelperAct ==
    /\ last = Idle
    /\ \E d \in Helpers, start \in StartOptions : HelperApplied(d, start, start, 1)

ApplyNextHelperAct ==
    /\ last.op = "ApplyHelper"
    /\ last.k < MaxHelpers
    /\ \E d \in Helpers : HelperApplied(d, last.start, last.options, last.k + 1)

NextHeaders ==
    \/ ApplyFirstHelperAct
    \/ ApplyNextHelperAct

SpecHeaders == InitHeaders /\ [][NextHeaders]_vars

(***************************************************************************)
(* SpecOpts: the option resolvers on their own.                            *)
(***************************************************************************)
BaseOptions == Options_apply(Options_defaults(EnvSet), <<>>)

InitOpts ==
    /\ env \in {EnvUnset, EnvSet}
    /\ client = NilPtr
    /\ store = <<>>
    /\ svc = <<>>
    /\ obj = ZeroObject
    /\ inflight = <<>>
    /\ calls = <<>>
    /\ \/ \E s \in SeqsUpTo(StorageOptionSet, MaxOpts) :
             last = [op |-> "options", kind |-> "storage.Options", opts |-> s]
       \/ \E s \in SeqsUpTo(OptionSet, MaxOpts) :
             last = [op |-> "options", kind |-> "Options", opts |-> s]
       \/ /\ env = EnvSet
          /\ \E s \in SeqsUpTo(ClientOptionSet, MaxOpts) :
               last = [op |-> "options", kind |-> "ClientOptions", opts |-> s]
       \/ /\ env = EnvSet
          /\ \E s \in SeqsUpTo(BucketOptionSet, MaxOpts) :
               last = [op |-> "options", kind |-> "BucketOptions", opts |-> s]

Resolved(kind, opts, base, out) ==
    [op |-> "resolved", kind |-> kind, opts |-> opts, base |-> base, out |-> out]

ResolveStorageOptions ==
    /\ last.op = "options" /\ last.kind = "storage.Options"
    /\ LET o == storage_Options_defaults(env)
       IN  last' = Resolved(last.kind, last.opts, o, storage_apply(o, last.opts))
    /\ UNCHANGED <<env, client, store, svc, obj, inflight, calls>>

ResolveOptions ==
    /\ last.op = "options" /\ last.kind = "Options"
    /\ LET o == Options_defaults(env)
       IN  last' = Resolved(last.kind, last.opts, o, Options_apply(o, last.opts))
    /\ UNCHANGED <<env, client, store, svc, obj, inflight, calls>>

ResolveClientOptions ==
    /\ last.op = "options" /\ last.kind = "ClientOptions"
    /\ LET o == ClientOptions_defaults(BaseOptions)
       IN  last' = Resolved(last.kind, last.opts, o, ClientOptions_apply(o, last.opts))
    /\ UNCHANGED <<env, client, store, svc, obj, inflight, calls>>

ResolveBucketOptions ==
    /\ last.op = "options" /\ last.kind = "BucketOptions"
    /\ LET o == BucketOptions_defaults
       IN  last' = Resolved(last.kind, last.opts, o, BucketOptions_apply(o, last.opts))
    /\ UNCHANGED <<env, client, store, svc, obj, inflight, calls>>

NextOpts ==
    \/ ResolveStorageOptions
    \/ ResolveOptions
    \/ ResolveClientOptions
    \/ ResolveBucketOptions

SpecOpts == InitOpts /\ [][NextOpts]_vars

(***************************************************************************)
(* Spec: a program that holds a client and makes one call, or makes calls  *)
(* concurrently.                                                           *)
(***************************************************************************)
Init ==
    \/ InitPut
    \/ InitBucket
    \/ InitCalls

Next ==
    \/ NextNew
    \/ NextPresign
    \/ NextPut
    \/ NextList
    \/ NextBucket
    \/ last.op = "calls" /\ NextCalls
    \/ NextObject
    \/ NextHead
    \/ NextPages
    \/ NextHeaders

Spec == Init /\ [][Next]_vars

(***************************************************************************)
(* Reading an option list the way the documentation describes it: which    *)
(* fields an option function sets, and with what.                          *)
(***************************************************************************)
Max(S) == CHOOSE x \in S : \A y \in S : y <= x

Writes(opt) ==
    CASE opt.fn \in {"WithBucket", "OverrideBucket"} -> {"BucketName"}
      [] opt.fn \in {"WithFlyEndpoint", "WithGlobalEndpoint", "WithEndpoint"} ->
            {"BaseEndpoint"}
      [] opt.fn = "WithRegion" -> {"Region"}
      [] opt.fn = "WithPathStyle" -> {"UsePathStyle"}
      [] opt.fn = "WithAccessKeypair" -> {"AccessKeyID", "SecretAccessKey"}
      [] opt.fn = "WithS3Options" -> {"S3Options"}
      [] opt.fn = "WithStartAfter" -> {"StartAfter"}
      [] opt.fn \in {"WithMaxKeys", "WithListLimit"} -> {"MaxKeys"}
      [] opt.fn = "WithDelimiter" -> {"Delimiter"}
      [] opt.fn = "WithPrefix" -> {"Prefix"}
      [] opt.fn = "WithPaginationToken" -> {"PaginationToken"}
      [] opt.fn = "WithContentType" -> {"ContentType"}
      [] opt.fn = "WithContentDisposition" -> {"ContentDisposition"}
      [] opt.fn = "WithEnableSnapshot" -> {"EnableSnapshot", "S3Options"}
      [] opt.fn = "WithSnapshotVersion" -> {"SnapshotVersion", "S3Options"}
      [] opt.fn = "WithBucketRegion" -> {"Region", "S3Options"}
      [] opt.fn = "WithListToken" -> {"ContinuationToken"}
      [] opt.fn = "WithForceDelete" -> {"ForceDelete"}

\* The request decorators an option function supplies.
Supplies(opt) ==
    CASE opt.fn = "WithS3Options" -> opt.ds
      [] opt.fn = "WithEnableSnapshot" -> <<WithHeader("X-Tigris-Enable-Snapshot", "true")>>
      [] opt.fn = "WithSnapshotVersion" ->
            <<WithHeader("X-Tigris-Snapshot-Version", opt.a)>>
      [] opt.fn = "WithBucketRegion" -> <<WithHeader("X-Tigris-Regions", opt.a)>>
      [] OTHER -> <<>>

Written(opt, f) ==
    CASE f = "BaseEndpoint" ->
            (CASE opt.fn = "WithFlyEndpoint" -> "https://fly.storage.tigris.dev"
               [] opt.fn = "WithGlobalEndpoint" -> "https://t3.storage.dev"
               [] OTHER -> opt.a)
      [] f \in {"BucketName", "Region", "AccessKeyID", "SnapshotVersion"} -> opt.a
      [] f = "SecretAccessKey" -> opt.b
      [] f = "UsePathStyle" -> opt.on
      [] f \in {"EnableSnapshot", "ForceDelete"} -> TRUE
      [] f = "MaxKeys" -> <<opt.n>>
      [] f = "S3Options" -> Supplies(opt)
      [] OTHER -> <<opt.a>>

Writers(opts, f) == {i \in DOMAIN opts : f \in Writes(opts[i])}

LastWriterWins(base, opts, out, f) ==
    out[f] = IF Writers(opts, f) = {} THEN base[f]
             ELSE Written(opts[Max(Writers(opts, f))], f)

RECURSIVE AllSupplied(_)
AllSupplied(opts) ==
    IF opts = <<>> THEN <<>>
    ELSE AllSupplied(SubSeq(opts, 1, Len(opts) - 1)) \o Supplies(opts[Len(opts)])

(***************************************************************************)
(* Claims on construction and option resolution.                           *)
(***************************************************************************)
\* The bucket name after merging: the environment value first, then every
\* option in order.
MergedBucket(e, options) ==
    IF Writers(options, "BucketName") = {} THEN e.TIGRIS_STORAGE_BUCKET
    ELSE options[Max(Writers(options, "BucketName"))].a

\* C1: New fails with an error matching ErrNoBucketName exactly when the
\* bucket name is empty after merging the environment and the options in
\* order; in that case it returns no client and neither builds a storage
\* client nor makes any call.
C1_NoBucketName ==
    last.op = "New" =>
        /\ errors_Is(last.err, ErrNoBucketName) <=> MergedBucket(env, last.options) = ""
        /\ MergedBucket(env, last.options) = "" =>
              /\ last.client = NilPtr
              /\ client = NilPtr
              /\ calls = <<>>
        /\ MergedBucket(env, last.options) # "" =>
              /\ Len(calls) = 1 /\ calls[1].api = "storage.New"
              /\ last.cfgOK => /\ last.err = NoErr
                               /\ last.client # NilPtr
                               /\ last.client[1].options.BucketName =
                                     MergedBucket(env, last.options)

\* C1 witness: an empty option over a non-empty variable has failed, and a
\* non-empty option over an empty variable is what New is failing without.
C1_Witness ==
    /\ last.op = "New"
    /\ env.TIGRIS_STORAGE_BUCKET # ""
    /\ \E i \in DOMAIN last.options : last.options[i] = Opt("WithBucket", "", "")
    /\ errors_Is(last.err, ErrNoBucketName)
    /\ calls = <<>>

\* C2 as stated: every field of the resolved value, S3Options included, holds
\* what the last option that sets it wrote (its default if none did).
C2_LastWriterEveryField ==
    last.op = "resolved" =>
        \A f \in DOMAIN last.out : LastWriterWins(last.base, last.opts, last.out, f)

\* C2 amended: every field other than S3Options holds what the last option
\* that sets it wrote, and its default if no option sets it; S3Options holds
\* the decorators of all the options, in the order the options were given.
C2_FoldLastWriter ==
    last.op = "resolved" =>
        /\ \A f \in DOMAIN last.out \ {"S3Options"} :
              LastWriterWins(last.base, last.opts, last.out, f)
        /\ "S3Options" \in DOMAIN last.out =>
              last.out.S3Options = last.base.S3Options \o AllSupplied(last.opts)

\* C2 witness: a field set twice holds the second value, the decorators of
\* both options were kept, and a field no option sets has its default.
C2_Witness ==
    /\ last.op = "resolved"
    /\ last.kind = "BucketOptions"
    /\ Len(last.opts) = 3
    /\ Writers(last.opts, "SnapshotVersion") = {1, 2}
    /\ last.opts[1].a # last.opts[2].a
    /\ last.out.SnapshotVersion = last.opts[2].a
    /\ Len(last.out.S3Options) = 2
    /\ Writers(last.opts, "MaxKeys") = {3}
    /\ last.out.ContinuationToken = NilPtr

(***************************************************************************)
(* Claims on PresignURL.                                                   *)
(***************************************************************************)
MsgMethod == "simplestorage: unsupported HTTP method for presigned URL"
MsgKey == "simplestorage: key cannot be empty for presigned URL"
MsgExpiry == "simplestorage: invalid expiry duration for presigned URL"
ValidationMsgs == {MsgMethod, MsgKey, MsgExpiry}

BadMethod == last.method \notin {"GET", "PUT", "DELETE"}
EmptyKey == last.key = ""
BadExpiry == last.expiry <= 0

\* The messages of the checks the inputs of the last PresignURL fail.
FailedChecks ==
    (IF BadMethod THEN {MsgMethod} ELSE {})
    \cup (IF EmptyKey THEN {MsgKey} ELSE {})
    \cup (IF BadExpiry THEN {MsgExpiry} ELSE {})

\* C3: PresignURL rejects every method other than exactly GET, PUT, DELETE
\* with the unsupported-method error, an empty key with the empty-key error
\* and a non-positive expiry with the invalid-expiry error (each when it is
\* the input at fault, and never with the message of a check that passed);
\* with all three inputs valid none of the three errors is returned.
C3_PresignRejects ==
    last.op = "PresignURL" =>
        /\ BadMethod => last.err.msg = MsgMethod
        /\ FailedChecks = {MsgKey} => last.err.msg = MsgKey
        /\ FailedChecks = {MsgExpiry} => last.err.msg = MsgExpiry
        /\ FailedChecks # {} => last.err # NoErr /\ last.err.msg \in FailedChecks
        /\ FailedChecks = {} => last.err.msg \notin ValidationMsgs

\* C3 witness: a lowercase method was rejected as unsupported although key
\* and expiry were valid.
C3_Witness ==
    /\ last.op = "PresignURL"
    /\ last.method = "get" /\ last.key # "" /\ last.expiry > 0
    /\ last.err.msg = MsgMethod

\* The first failing check in the order method, key, expiry.
FirstCause ==
    IF BadMethod THEN MsgMethod
    ELSE IF EmptyKey THEN MsgKey
    ELSE IF BadExpiry THEN MsgExpiry
    ELSE ""

\* C4: with one or several invalid inputs PresignURL reports exactly one
\* cause, the first failing check in the order method, key, expiry, whatever
\* the options and the SDK's outcome.
C4_FirstCauseReported ==
    (last.op = "PresignURL" /\ FailedChecks # {}) =>
        last.err = [msg |-> FirstCause, is |-> {}]

\* C4 witness: a valid method with an empty key and a non-positive expiry
\* reported the key.
C4_Witness ==
    /\ last.op = "PresignURL"
    /\ ~BadMethod /\ EmptyKey /\ BadExpiry
    /\ last.err.msg = MsgKey

\* C5: when a validation check fails PresignURL returns the empty URL and has
\* applied no option function, created no presign client and issued no call.
C5_RejectedBeforeAnything ==
    (last.op = "PresignURL" /\ last.err.msg \in ValidationMsgs) =>
        /\ last.url = ""
        /\ last.applied = 0
        /\ last.presigners = 0
        /\ calls = <<>>

\* C5 witness: PATCH was rejected although options were given and the SDK
\* would have signed.
C5_Witness ==
    /\ last.op = "PresignURL"
    /\ last.method = "PATCH" /\ last.key # "" /\ last.expiry > 0
    /\ Len(last.opts) > 0 /\ last.sdkOK
    /\ last.err.msg = MsgMethod /\ last.url = ""

\* The bucket a call resolves to: the last OverrideBucket, else the client's.
CallBucket(c, opts) ==
    IF Writers(opts, "BucketName") = {} THEN c.options.BucketName
    ELSE opts[Max(Writers(opts, "BucketName"))].a

Carries(req, f) == f \in DOMAIN req /\ req[f] # NilPtr

PresignKind(method) ==
    CASE method = "GET" -> "PresignGetObject"
      [] method = "PUT" -> "PresignPutObject"
      [] method = "DELETE" -> "PresignDeleteObject"

\* C6: for valid inputs PresignURL issues exactly one presign request, of the
\* kind of the method, for the resolved bucket, the key and the expiry; it
\* carries a content type (a content disposition) iff the method is PUT and
\* the option was supplied, and then the value of the last such option.
C6_PresignRequest ==
    (last.op = "PresignURL" /\ FailedChecks = {}) =>
        /\ Len(calls) = 1
        /\ last.presigners = 1
        /\ calls[1].api = PresignKind(last.method)
        /\ calls[1].Bucket = <<CallBucket(client[1], last.opts)>>
        /\ calls[1].Key = <<last.key>>
        /\ calls[1].Expires = last.expiry
        /\ \A f \in {"ContentType", "ContentDisposition"} :
              /\ Carries(calls[1], f) <=>
                    (last.method = "PUT" /\ Writers(last.opts, f) # {})
              /\ Carries(calls[1], f) =>
                    calls[1][f] = <<last.opts[Max(Writers(last.opts, f))].a>>

\* C6 witness: a PUT URL was signed for an overridden bucket with a content
\* type and without a content disposition.
C6_Witness ==
    /\ last.op = "PresignURL" /\ last.method = "PUT" /\ last.err = NoErr
    /\ calls[1].Bucket = <<"b2">>
    /\ calls[1].ContentType = <<"text/plain">>
    /\ calls[1].ContentDisposition = <<>>

(***************************************************************************)
(* Claims on Put, Head and Get.                                            *)
(***************************************************************************)
\* C7: the request Put builds carries a content type iff the record's
\* ContentType is not "", and a content length iff the record's Size is not
\* 0; what it carries is the record's value.
C7_ZeroValueElision ==
    last.op = "Put" =>
        /\ Len(calls) = 1 /\ calls[1].api = "PutObject"
        /\ Carries(calls[1], "ContentType") <=> last.in.ContentType # ""
        /\ Carries(calls[1], "ContentType") =>
              calls[1].ContentType = <<last.in.ContentType>>
        /\ Carries(calls[1], "ContentLength") <=> last.in.Size # 0
        /\ Carries(calls[1], "ContentLength") =>
              calls[1].ContentLength = <<last.in.Size>>

\* C7 witness: a record with a size and no content type was put.
C7_Witness ==
    /\ last.op = "Put"
    /\ last.in.ContentType = "" /\ last.in.Size = 5
    /\ calls[1].ContentType = <<>> /\ calls[1].ContentLength = <<5>>

\* C8: a successful Put returns the record passed in, with Bucket the
\* resolved bucket, Etag and Version those of the response ("" when it has
\* none) and every other field as passed; a failed Put returns no record and
\* leaves the record as passed.
C8_PutUpdatesInPlace ==
    last.op = "Put" =>
        /\ (last.err = NoErr) <=> last.resp.ok
        /\ last.resp.ok =>
              /\ last.ret = <<"obj">>
              /\ obj.Bucket = CallBucket(client[1], last.opts)
              /\ obj.Etag = (IF last.resp.ETag = <<>> THEN "" ELSE last.resp.ETag[1])
              /\ obj.Version =
                    (IF last.resp.VersionId = <<>> THEN "" ELSE last.resp.VersionId[1])
              /\ \A f \in DOMAIN obj \ {"Bucket", "Etag", "Version"} : obj[f] = last.in[f]
        /\ ~last.resp.ok => last.ret = <<>> /\ obj = last.in

\* C8 witness: a record that carried an old bucket, etag and version was put
\* into an overridden bucket and the response had neither etag nor version.
C8_Witness ==
    /\ last.op = "Put" /\ last.err = NoErr
    /\ last.in.Bucket = "b9" /\ last.in.Etag = "e9" /\ last.in.Version = "v9"
    /\ last.resp.ETag = <<>>
    /\ obj.Bucket = "b2" /\ obj.Etag = "" /\ obj.Version = ""
    /\ obj.ContentDisposition = "attachment"

\* C9: a Head or Get that follows a successful Put of a record, for the
\* record's key in the bucket it was put into, returns the content type, the
\* content disposition and the metadata the record carried.
C9_PutStoresMetadata ==
    (/\ last.op \in {"Head", "Get"}
     /\ last.err = NoErr
     /\ last.put # <<>>
     /\ last.key = obj.Key
     /\ last.ret[1].Bucket = obj.Bucket) =>
        /\ obj.ContentType # "" => last.ret[1].ContentType = obj.ContentType
        /\ last.ret[1].ContentDisposition = obj.ContentDisposition
        /\ last.ret[1].Metadata = obj.Metadata

(***************************************************************************)
(* Claims on List and ListBuckets.                                         *)
(***************************************************************************)
\* C10: for every successful List and ListBuckets, whatever the backing call
\* returned, the returned truncation flag (HasMore, Truncated) is true iff
\* the returned NextToken is not "".
C10_TruncatedIffToken ==
    /\ (last.op = "List" /\ last.err = NoErr) =>
          (last.ret[1].HasMore <=> last.ret[1].NextToken # "")
    /\ (last.op = "ListBuckets" /\ last.err = NoErr) =>
          (last.ret[1].Truncated <=> last.ret[1].NextToken # "")

\* C11: when the backing service answers with a page that has no entries,
\* List and ListBuckets succeed with an empty sequence of items and a
\* truncation flag (HasMore, Truncated) equal to false.
C11_EmptyPageNotTruncated ==
    /\ (last.op = "List" /\ last.err = NoErr /\ last.resp.Contents = <<>>) =>
          /\ last.ret # NilPtr
          /\ last.ret[1].Items = <<>>
          /\ last.ret[1].HasMore = FALSE
    /\ (last.op = "ListBuckets" /\ last.err = NoErr /\ last.resp.Buckets = <<>>) =>
          /\ last.ret # NilPtr
          /\ last.ret[1].Buckets = <<>>
          /\ last.ret[1].Truncated = FALSE

(***************************************************************************)
(* Claims on bucket management.                                            *)
(***************************************************************************)
ForceGiven(opts) == \E i \in DOMAIN opts : opts[i].fn = "WithForceDelete"
AllCallsSucceeded == \A i \in DOMAIN calls : calls[i].err = NoErr
IsCall(i, api, bucket) == calls[i].api = api /\ calls[i].Bucket = Ptr(bucket)

\* C12: DeleteBucket with the force option on a bucket holding N objects,
\* every backing call succeeding, makes one ListObjectsV2 call, then one
\* DeleteObject call per object in order, then one DeleteBucket call, and
\* nothing else; it returns nil only if the list call, every object delete
\* and the bucket delete succeeded.
C12_ForceDeleteCalls ==
    (last.op = "DeleteBucket" /\ last.args.bucket # "" /\ ForceGiven(last.opts)) =>
        LET b == last.args.bucket
        IN  /\ AllCallsSucceeded =>
                  /\ last.before[b] # NilPtr
                  /\ LET keys == last.before[b][1]
                         N == Len(keys)
                     IN  /\ Len(calls) = N + 2
                         /\ IsCall(1, "ListObjectsV2", b)
                         /\ \A i \in 1..N :
                               /\ IsCall(i + 1, "DeleteObject", b)
                               /\ calls[i + 1].Key = Ptr(keys[i])
                         /\ IsCall(N + 2, "DeleteBucket", b)
            /\ last.err = NoErr =>
                  /\ AllCallsSucceeded
                  /\ Len(calls) >= 2
                  /\ IsCall(1, "ListObjectsV2", b)
                  /\ IsCall(Len(calls), "DeleteBucket", b)
                  /\ \A i \in 2..(Len(calls) - 1) : IsCall(i, "DeleteObject", b)

\* A forced delete of a bucket of two objects that succeeded with four calls.
C12_Witness ==
    /\ last.op = "DeleteBucket" /\ ForceGiven(last.opts)
    /\ last.args.bucket = "b1"
    /\ last.before["b1"] = Ptr(<<"k1", "k2">>)
    /\ last.err = NoErr
    /\ Len(calls) = 4
    /\ svc["b1"] = NilPtr

\* C13: when DeleteBucket with the force option issues the DeleteBucket
\* call, every object that was in the bucket when the operation started has
\* been deleted, whatever the size of the bucket.
C13_ForceDeleteEmpties ==
    (last.op = "DeleteBucket" /\ last.args.bucket # "" /\ ForceGiven(last.opts)) =>
        LET b == last.args.bucket
        IN  \A i \in DOMAIN calls :
                (calls[i].api = "DeleteBucket" /\ last.before[b] # NilPtr) =>
                    \A j \in DOMAIN last.before[b][1] :
                        \A k \in DOMAIN calls[i].svcAtCall[b][1] :
                            calls[i].svcAtCall[b][1][k] # last.before[b][1][j]

\* C14: DeleteBucket without the force option makes exactly one backing
\* call, the DeleteBucket call, and no ListObjectsV2 or DeleteObject call; on
\* a non-empty bucket it returns an error and leaves the bucket and its
\* objects as they were.
C14_PlainDeleteOneCall ==
    (last.op = "DeleteBucket" /\ last.args.bucket # "" /\ ~ForceGiven(last.opts)) =>
        LET b == last.args.bucket
        IN  /\ Len(calls) = 1
            /\ IsCall(1, "DeleteBucket", b)
            /\ (last.before[b] # NilPtr /\ last.before[b][1] # <<>>) =>
                  /\ last.err # NoErr
                  /\ svc = last.before

\* A plain delete of a bucket of two objects, rejected by the service.
C14_Witness ==
    /\ last.op = "DeleteBucket" /\ ~ForceGiven(last.opts)
    /\ last.args.bucket = "b1"
    /\ last.args.fail = 0
    /\ last.before["b1"] = Ptr(<<"k1", "k2">>)
    /\ errors_Is(last.err, s3_BucketNotEmpty)
    /\ svc["b1"] = Ptr(<<"k1", "k2">>)
    /\ Len(calls) = 1

\* Operations that take the bucket they work on as their bucket argument.
BucketNamedOps == {"DeleteBucket", "CreateBucketSnapshot"}

\* C15: each exported sentinel is what errors.Is matches for the condition
\* it documents: ErrNoBucketName from New with no bucket name,
\* ErrBucketNotFound from a bucket operation on a bucket that does not
\* exist, ErrBucketNotEmpty from DeleteBucket without force on a non-empty
\* bucket, ErrSnapshotRequired from an operation that needs a snapshot
\* version and got none (no operation of the code needs one).
C15_SentinelsMatch ==
    /\ (last.op = "New" /\ MergedBucket(env, last.options) = "") =>
          errors_Is(last.err, ErrNoBucketName)
    /\ (/\ last.op \in BucketNamedOps
        /\ last.args.bucket # ""
        /\ last.before[last.args.bucket] = NilPtr
        /\ last.err # NoErr
        /\ ~errors_Is(last.err, s3_Transport)) =>
          errors_Is(last.err, ErrBucketNotFound)
    /\ (/\ last.op = "DeleteBucket" /\ ~ForceGiven(last.opts)
        /\ last.args.bucket # ""
        /\ last.before[last.args.bucket] # NilPtr
        /\ last.before[last.args.bucket][1] # <<>>
        /\ ~errors_Is(last.err, s3_Transport)) =>
          errors_Is(last.err, ErrBucketNotEmpty)

\* The result of a bucket operation that was rejected for its names: the
\* given message, no result, no option function run, no backing call, the
\* service untouched.
RejectedLocally(msg) ==
    /\ last.err.msg = msg
    /\ last.ret = NilPtr
    /\ last.applied = 0
    /\ calls = <<>>
    /\ svc = last.before

\* C16: CreateBucket, DeleteBucket, GetBucketInfo, CreateBucketSnapshot and
\* ListBucketSnapshots with an empty bucket name, and ForkBucket with an
\* empty source or an empty target (the source is checked first), return a
\* "bucket name required" error and no result, run no option function and
\* make no backing call.
C16_EmptyNameRejected ==
    /\ (/\ last.op \in {"CreateBucket", "DeleteBucket", "GetBucketInfo",
                         "CreateBucketSnapshot", "ListBucketSnapshots"}
        /\ last.args.bucket = "") => RejectedLocally(MsgBucketRequired)
    /\ (last.op = "ForkBucket" /\ last.args.source = "") =>
          RejectedLocally(MsgSourceRequired)
    /\ (last.op = "ForkBucket" /\ last.args.source # "" /\ last.args.target = "") =>
          RejectedLocally(MsgTargetRequired)

\* ForkBucket with both names empty and two options was rejected for its
\* source.
C16_Witness ==
    /\ last.op = "ForkBucket"
    /\ last.args.source = "" /\ last.args.target = ""
    /\ Len(last.opts) = 2
    /\ last.err.msg = MsgSourceRequired
    /\ calls = <<>>

\* Whether the metadata call of GetBucketInfo succeeded: HeadBucket answered
\* without error and its raw response had the expected shape.
MetadataOK(resp) == resp.err = NoErr /\ resp.rawOK

\* C17: for every non-empty bucket name and every outcome of the metadata
\* call, GetBucketInfo returns a nil error and a record whose Name is the
\* requested bucket; when the metadata call failed every other field is its
\* zero value, and when it succeeded the four fork and snapshot fields are
\* the values of the response's headers.
C17_GetBucketInfoNeverFails ==
    (last.op = "GetBucketInfo" /\ last.args.bucket # "") =>
        /\ last.err = NoErr
        /\ last.ret # NilPtr
        /\ last.ret[1].Name = last.args.bucket
        /\ ~MetadataOK(last.args.resp) =>
              last.ret[1] = [ZeroBucketInfo EXCEPT !.Name = last.args.bucket]
        /\ MetadataOK(last.args.resp) =>
              /\ last.ret[1].SnapshotsEnabled =
                    (last.args.resp.header.EnableSnapshot = "true")
              /\ last.ret[1].IsForkParent =
                    (last.args.resp.header.IsForkParent = "true")
              /\ last.ret[1].SourceBucket = last.args.resp.header.ForkSourceBucket
              /\ last.ret[1].SourceSnapshot =
                    last.args.resp.header.ForkSourceBucketSnapshot

\* The metadata call was denied and GetBucketInfo returned the name alone.
C17_Witness ==
    /\ last.op = "GetBucketInfo"
    /\ last.args.bucket = "b1"
    /\ last.args.resp.err = s3_AccessDenied
    /\ last.err = NoErr
    /\ last.ret = Ptr([ZeroBucketInfo EXCEPT !.Name = "b1"])
    /\ Len(calls) = 1

\* How many of the request decorators add the header key.
HeaderCount(opts, key) == Cardinality({i \in DOMAIN opts : opts[i].key = key})
SnapshotGiven(opts) == \E i \in DOMAIN opts : opts[i].fn = "WithEnableSnapshot"

\* C18: CreateBucket with a non-empty name makes exactly one bucket creation
\* call, through CreateSnapshotEnabledBucket iff WithEnableSnapshot was
\* supplied; the request then carries the X-Tigris-Enable-Snapshot header
\* exactly once, and without the option it does not carry it.
C18_CreateBucketRouting ==
    (last.op = "CreateBucket" /\ last.args.bucket # "") =>
        /\ Len(calls) = 1
        /\ calls[1].Bucket = Ptr(last.args.bucket)
        /\ calls[1].api = IF SnapshotGiven(last.opts)
                          THEN "CreateSnapshotEnabledBucket" ELSE "CreateBucket"
        /\ HeaderCount(calls[1].S3Options, "X-Tigris-Enable-Snapshot") =
              IF SnapshotGiven(last.opts) THEN 1 ELSE 0

\* The version of the last WithSnapshotVersion among opts, "" without one.
LastSnapshotVersion(opts) ==
    LET versions == SelectSeq(opts, LAMBDA d : d.fn = "WithSnapshotVersion")
    IN  IF versions = <<>> THEN "" ELSE versions[Len(versions)].a

\* C19: a successful ForkBucket(source, target, opts) returns a record with
\* Name = target, SourceBucket = source and SourceSnapshot = the version of
\* the last snapshot-version option, "" when there is none; when the backing
\* call fails it returns an error and no record.
C19_ForkBucketRecord ==
    (last.op = "ForkBucket" /\ last.args.source # "" /\ last.args.target # "") =>
        /\ Len(calls) = 1
        /\ calls[1].err = NoErr =>
              /\ last.err = NoErr
              /\ last.ret # NilPtr
              /\ last.ret[1].Name = last.args.target
              /\ last.ret[1].SourceBucket = last.args.source
              /\ last.ret[1].SourceSnapshot = LastSnapshotVersion(last.opts)
        /\ calls[1].err # NoErr =>
              /\ last.err # NoErr
              /\ last.ret = NilPtr

\* A fork of b1 into b2 given version v1 and then v2 reports v2.
C19_Witness ==
    /\ last.op = "ForkBucket"
    /\ last.args.source = "b1" /\ last.args.target = "b2"
    /\ last.opts = <<Opt("WithSnapshotVersion", "v1", ""),
                     Opt("WithSnapshotVersion", "v2", "")>>
    /\ last.err = NoErr
    /\ last.ret[1].SourceSnapshot = "v2"
    /\ svc["b2"] = last.before["b1"]

(***************************************************************************)
(* Claims on concurrent calls.                                             *)
(***************************************************************************)
\* What a call's own option functions make of an optional field: the value
\* of the last one that sets it, nil without one.
OwnValue(opts, f) ==
    IF Writers(opts, f) = {} THEN NilPtr
    ELSE Written(opts[Max(Writers(opts, f))], f)

\* C20: under every interleaving of calls on one client, the request of each
\* call holds the bucket, list filters, presign headers and request
\* decorators of that call's own option functions over the client's base
\* configuration and nothing of another call's, and the client's base
\* configuration, its default bucket included, stays as it was.
C20_CallsIsolated ==
    last.op = "calls" =>
        /\ client = last.base
        /\ \A id \in CallIds :
              inflight[id].pc = "done" =>
                  LET f == inflight[id]
                      req == f.req[1]
                  IN  /\ req.Bucket = Ptr(CallBucket(last.base[1], f.opts))
                      /\ f.kind = "List" =>
                            /\ req.Prefix = OwnValue(f.opts, "Prefix")
                            /\ req.Delimiter = NilPtr
                            /\ req.MaxKeys = NilPtr
                            /\ req.StartAfter = NilPtr
                            /\ req.ContinuationToken = NilPtr
                      /\ f.kind = "List" =>
                            req.S3Options = AllSupplied(f.opts)
                      /\ f.kind = "PresignPut" =>
                            /\ req.ContentType = OwnValue(f.opts, "ContentType")
                            /\ req.ContentDisposition = NilPtr

\* Call 1 has run its bucket override and its decorator and not yet sent
\* its request; call 2, without options, has sent its own for the client's
\* bucket.
C20_Witness ==
    /\ last.op = "calls"
    /\ inflight[1].pc = "apply" /\ inflight[1].i = 3
    /\ inflight[1].opts = <<Opt("OverrideBucket", "b2", ""),
                            OptD("WithS3Options", <<WithHeader("X-Custom", "1")>>)>>
    /\ inflight[1].o[1].BucketName = "b2"
    /\ inflight[2].pc = "done" /\ inflight[2].kind = "List"
    /\ inflight[2].opts = <<>>
    /\ inflight[2].req[1].Bucket = Ptr("env-bucket")
    /\ inflight[2].req[1].S3Options = <<>>

(***************************************************************************)
(* C21  For any bucket name b, the empty one included, client.For(b)       *)
(* returns a client distinct from the original whose bucket is b, whose    *)
(* endpoint, region, path-style flag and credential pair equal the         *)
(* original's and which shares the original's storage client (none is      *)
(* built); the original client's bucket and options are unchanged.         *)
(***************************************************************************)
OtherFields == {"BaseEndpoint", "Region", "UsePathStyle", "AccessKeyID", "SecretAccessKey"}

C21_ForDerives ==
    last.op = "For" =>
        /\ last.fresh
        /\ client = Ptr(last.ret)
        /\ last.ret.options.BucketName = last.bucket
        /\ \A f \in OtherFields : last.ret.options[f] = last.receiver.options[f]
        /\ last.ret.cli = last.receiver.cli
        /\ calls = <<>>
        /\ last.after = last.receiver

\* For is given a bucket other than the original's, the empty one too.
C21_Witness ==
    /\ last.op = "For"
    /\ last.bucket = ""
    /\ last.receiver.options.BucketName # ""
    /\ last.receiver.options.AccessKeyID # ""

(***************************************************************************)
(* C22  Every request that Get, Head, Put, Delete, List or PresignURL      *)
(* sends carries a non-empty bucket name, for every client New returns,    *)
(* every client derived from it with For and every list of per-call        *)
(* options, OverrideBucket included.                                       *)
(***************************************************************************)
ObjectOps == {"Get", "Head", "Put", "Delete", "List", "PresignURL"}

C22_BucketNeverEmpty ==
    last.op \in ObjectOps =>
        \A i \in DOMAIN calls : calls[i].Bucket # NilPtr /\ calls[i].Bucket[1] # ""

(***************************************************************************)
(* C23  When the backing call of Get, Head, Put, Delete, List or of a      *)
(* bucket-management operation other than GetBucketInfo fails with error   *)
(* e, the returned error has the prefix naming the operation and carries   *)
(* e as its cause: errors.Is(returned, e) holds.                           *)
(***************************************************************************)
\* The error the SDK answers a failed object call with.
BackingError(op) ==
    CASE op = "Get" -> errors_New("sdk: get failed")
      [] op = "Head" -> errors_New("sdk: head failed")
      [] op = "Put" -> errors_New("sdk: put failed")
      [] op = "Delete" -> errors_New("sdk: delete failed")
      [] op = "List" -> errors_New("sdk: list failed")

WrapPrefix(op) ==
    CASE op = "Get" -> "simplestorage: can't get"
      [] op = "Head" -> "simplestorage: can't head"
      [] op = "Put" -> "simplestorage: can't put"
      [] op = "Delete" -> "simplestorage: can't delete"
      [] op = "List" -> "simplestorage: can't list"

\* The errors the service answers a failed bucket call with.
ServiceErrors ==
    {s3_Transport, s3_NoSuchBucket, s3_BucketNotEmpty, s3_BucketAlreadyExists,
     s3_AccessDenied}

WrappingBucketOps ==
    {"CreateBucket", "DeleteBucket", "CreateBucketSnapshot", "ListBucketSnapshots",
     "ForkBucket"}

C23_CauseKept ==
    /\ (last.op \in {"Get", "Head", "Put", "Delete", "List"} /\ last.err # NoErr) =>
          /\ last.err.msg = WrapPrefix(last.op)
          /\ errors_Is(last.err, BackingError(last.op))
    /\ (last.op \in WrappingBucketOps /\ calls # <<>> /\ last.err # NoErr) =>
          \E e \in ServiceErrors : errors_Is(last.err, e)

(***************************************************************************)
(* C24  HeadBucketForkOrSnapshot issues exactly one metadata call; if it   *)
(* fails, its error is returned unchanged with no output; if the response  *)
(* does not expose raw HTTP headers, an "unexpected response type" error   *)
(* is returned with no output; otherwise SnapshotsEnabled and IsForkParent *)
(* are true iff their header equals exactly "true", and SourceBucket and   *)
(* SourceBucketSnapshot equal their header values (empty when absent).     *)
(***************************************************************************)
C24_HeadBucketMetadata ==
    last.op = "HeadBucketForkOrSnapshot" =>
        /\ Len(calls) = 1
        /\ calls[1].api = "HeadBucket"
        /\ calls[1].Bucket = Ptr(last.bucket)
        /\ last.resp.err # NoErr => last.out = NilPtr /\ last.err = last.resp.err
        /\ (last.resp.err = NoErr /\ ~last.resp.rawOK) =>
              /\ last.out = NilPtr
              /\ last.err = Errorf("unexpected response type from middleware")
        /\ (last.resp.err = NoErr /\ last.resp.rawOK) =>
              /\ last.err = NoErr
              /\ last.out # NilPtr
              /\ last.out[1].SnapshotsEnabled <=> last.resp.header.EnableSnapshot = "true"
              /\ last.out[1].IsForkParent <=> last.resp.header.IsForkParent = "true"
              /\ last.out[1].SourceBucket = last.resp.header.ForkSourceBucket
              /\ last.out[1].SourceBucketSnapshot =
                    last.resp.header.ForkSourceBucketSnapshot

\* The response carries no raw HTTP headers.
C24_Witness ==
    /\ last.op = "HeadBucketForkOrSnapshot"
    /\ last.resp.err = NoErr
    /\ ~last.resp.rawOK
    /\ last.out = NilPtr

(***************************************************************************)
(* C25  ListBuckets called with WithListLimit(n) and WithListToken(t)      *)
(* forwards both to the backing list call: the request carries n as its    *)
(* maximum number of results and t as its continuation token, so a page    *)
(* never holds more than n buckets.                                        *)
(***************************************************************************)
\* The value the last option of opts writing field f gave, nil if none did.
Given(opts, f) ==
    IF Writers(opts, f) = {} THEN NilPtr ELSE Written(opts[Max(Writers(opts, f))], f)

C25_ListBucketsForwards ==
    (last.op = "ListBuckets" /\ Given(last.opts, "MaxKeys") # NilPtr
        /\ Given(last.opts, "ContinuationToken") # NilPtr) =>
        /\ Len(calls) = 1
        /\ calls[1].ContinuationToken = Given(last.opts, "ContinuationToken")
        /\ Field(calls[1], "MaxBuckets") = Given(last.opts, "MaxKeys")
        /\ last.err = NoErr =>
              Len(last.ret[1].Buckets) <= Given(last.opts, "MaxKeys")[1]

(***************************************************************************)
(* C26  Against a bucket whose finite key set does not change, a caller    *)
(* that calls List and then calls List with WithPaginationToken(previous   *)
(* NextToken) while HasMore is true eventually stops, and the pages put    *)
(* together hold every key of the bucket exactly once in key order; each   *)
(* List call issues exactly one backing call, for the page asked and no    *)
(* further one.                                                            *)
(***************************************************************************)
ListingDone == last.op = "ListPages" /\ ~last.more

C26_PaginationCompletes ==
    /\ <>ListingDone
    /\ [](ListingDone => last.err = NoErr /\ last.items = svc[PagedBucket][1])
    /\ [](last.op = "ListPages" =>
             /\ Len(calls) = 1
             /\ calls[1].api = "ListObjectsV2"
             /\ last.pages > 1 => calls[1].ContinuationToken # NilPtr)

\* A listing that took more than one call and collected MaxObjects keys.
C26_Witness ==
    /\ ListingDone
    /\ last.pages > 1
    /\ Len(last.items) = MaxObjects

(***************************************************************************)
(* C27  If, during DeleteBucket with the force option, the list-objects    *)
(* call or a delete-object call fails, DeleteBucket returns an error at    *)
(* once: no further delete-object call is issued, the delete-bucket call   *)
(* is never issued, and the objects after the failing one and the bucket   *)
(* itself remain.                                                          *)
(***************************************************************************)
EmptyingFailedAt(i) ==
    /\ calls[i].api \in {"ListObjectsV2", "DeleteObject"}
    /\ calls[i].err # NoErr

C27_ForceDeleteStops ==
    (last.op = "DeleteBucket" /\ last.args.bucket # "" /\ ForceGiven(last.opts)) =>
        \A i \in DOMAIN calls :
            EmptyingFailedAt(i) =>
                LET b == last.args.bucket
                IN  /\ last.err # NoErr
                    /\ i = Len(calls)
                    /\ \A j \in DOMAIN calls : calls[j].api # "DeleteBucket"
                    /\ (svc[b] = NilPtr) <=> (last.before[b] = NilPtr)
                    /\ calls[i].api = "ListObjectsV2" => svc = last.before
                    /\ calls[i].api = "DeleteObject" =>
                          svc[b] = Ptr(SubSeq(last.before[b][1], i - 1,
                                              Len(last.before[b][1])))

\* The second of two object deletes failed: the first object is gone, the
\* second is still there and so is the bucket.
C27_Witness ==
    /\ last.op = "DeleteBucket" /\ ForceGiven(last.opts)
    /\ last.args.bucket = "b1"
    /\ last.before["b1"] = Ptr(<<"k1", "k2">>)
    /\ Len(calls) = 3
    /\ EmptyingFailedAt(3)
    /\ svc["b1"] = Ptr(<<"k2">>)

(***************************************************************************)
(* C28  The configuration in effect in the storage client that             *)
(* simplestorage.New builds equals the resolved Options: same endpoint,    *)
(* region and path-style flag, and static credentials are used iff the     *)
(* resolved access key id and secret are both non-empty, and are then      *)
(* those two values; so options that clear the pair override credentials   *)
(* of the environment and the ambient credential chain is used.            *)
(***************************************************************************)
C28_ConfigEqualsOptions ==
    (last.op = "New" /\ last.err = NoErr) =>
        LET o == client[1].options
            cfg == client[1].cli[1]
        IN  /\ cfg.BaseEndpoint = o.BaseEndpoint
            /\ cfg.Region = o.Region
            /\ cfg.UsePathStyle = o.UsePathStyle
            /\ (cfg.Credentials # NilPtr) <=>
                  (o.AccessKeyID # "" /\ o.SecretAccessKey # "")
            /\ cfg.Credentials # NilPtr =>
                  cfg.Credentials = Ptr(<<o.AccessKeyID, o.SecretAccessKey>>)

(***************************************************************************)
(* C29  For the same stored object and the same per-call options, Get and  *)
(* Head return records that agree on every metadata field (bucket, key,    *)
(* content type with its application/octet-stream default, content         *)
(* disposition, etag, size, version, last-modified, user metadata) and     *)
(* differ only in that Get carries an open body handle and Head none;      *)
(* both fail in the same cases.                                            *)
(***************************************************************************)
MetadataFields ==
    {"Bucket", "Key", "ContentType", "ContentDisposition", "Etag", "Size",
     "Version", "LastModified", "Metadata"}

C29_GetHeadAgree ==
    last.op \in {"Get", "Head"} =>
        \A transportOK \in BOOLEAN :
            LET g == Get(client[1], last.key, last.opts, store, transportOK)
                h == Head_(client[1], last.key, last.opts, store, transportOK)
            IN  /\ (g.err = NoErr) <=> (h.err = NoErr)
                /\ g.err = NoErr =>
                      /\ g.ret[1].Body # NilPtr
                      /\ h.ret[1].Body = NilPtr
                      /\ \A f \in MetadataFields : g.ret[1][f] = h.ret[1][f]

(***************************************************************************)
(* C30  Applying any tigrisheaders helper to a request-options value       *)
(* appends exactly one API option and leaves the API options already       *)
(* present unchanged and in their order, so applying k helpers in sequence *)
(* adds exactly k API options.                                             *)
(***************************************************************************)
C30_HelperAppendsOne ==
    last.op = "ApplyHelper" =>
        LET old == last.before.APIOptions
            new == last.options.APIOptions
        IN  /\ Len(new) = Len(old) + 1
            /\ SubSeq(new, 1, Len(old)) = old
            /\ new[Len(new)].key = last.helper.key
            /\ new[Len(new)].value = last.helper.value
            /\ Len(new) = Len(last.start.APIOptions) + last.k

\* MaxHelpers helpers were applied to options that already held one.
C30_Witness ==
    /\ last.op = "ApplyHelper"
    /\ last.k = MaxHelpers
    /\ last.start.APIOptions # <<>>
    /\ last.helper = tigrisheaders_WithRename

====
